---- MODULE Spec2Model ----
(***************************************************************************)
(* QR code generator / scan tracker: the tiered record store              *)
(* (FirebaseManager), the encrypted local vault (CryptoManager), the      *)
(* connectivity signal (FirebaseStatus) and the redirect resolver         *)
(* (QRRedirectManager).                                                   *)
(*                                                                         *)
(* Conventions.  A timestamp is a positive number; 0 stands for null.     *)
(* A localStorage slot is a record with a `present` flag.  A text is a    *)
(* parsed view of a string: its scheme ("" when the string has none and   *)
(* new URL(string) throws), its host labels, whether the string is free   *)
(* of characters that a host may not hold, and the blocked-scheme         *)
(* substrings that occur after the host.                                  *)
(***************************************************************************)
EXTENDS Integers, Sequences, FiniteSets, TLC

\* ----------------------------------------------------------------- bounds
MaxTime == 3

\* The number of vault calls that can be under way at the same time
\* (async operations of one page, or tabs of one profile).
NumOps == 2

\* The number of devices that scan the same code at the same time.
NumClients == 3

\* The number of pages of the origin that share the local store, and the
\* scan count up to which they keep scanning.
NumPages == 2
MaxScans == 2

\* The number of records a tier holds when it is listed.
MaxEntries == 11

\* The number of times the page starts a scan-count listener.
MaxSubs == 2

\* The number of characters of a rendered string after its run of letters.
MaxChars == 2

\* Id generation: the milliseconds the clock runs through and the number
\* of records created.
MaxMillis == 2
MaxCreates == 3

\* The rate limiter's clock runs up to here, in milliseconds.
MaxClock == 120001
MaxCalls == 3

\* The steps the clock takes between calls: one millisecond less than the
\* window, and the window.
ClockSteps == {59999, 60000}

\* ------------------------------------------------------------------ data
Ids == {"q1", "q2"}

TxtMeet     == [scheme |-> "https:", host |-> <<"meet", "google", "com">>, clean |-> TRUE,  marks |-> {}]
TxtEvil     == [scheme |-> "https:", host |-> <<"evil-example", "com">>,   clean |-> TRUE,  marks |-> {}]
TxtSubZoom  == [scheme |-> "http:", host |-> <<"eu", "zoom", "us">>,      clean |-> TRUE,  marks |-> {}]
TxtNotZoom  == [scheme |-> "https:", host |-> <<"notzoom", "us">>,         clean |-> TRUE,  marks |-> {}]
TxtBareMeet == [scheme |-> "",      host |-> <<"meet", "google", "com">>, clean |-> TRUE,  marks |-> {}]
TxtHello    == [scheme |-> "",      host |-> <<>>,                        clean |-> FALSE, marks |-> {}]

\* "www.example.com/JavaScript:void(0)": no protocol, and a blocked-scheme
\* substring in its path.
TxtPathMark == [scheme |-> "", host |-> <<"www", "example", "com">>, clean |-> TRUE,
                marks |-> {"JavaScript:"}]

Texts == {TxtMeet, TxtEvil, TxtSubZoom, TxtNotZoom, TxtBareMeet, TxtHello, TxtPathMark}

NoText == [scheme |-> "", host |-> <<>>, clean |-> FALSE, marks |-> {"none"}]

NoRec == [id |-> "none", name |-> "", originalText |-> NoText, logoPath |-> "",
          scanCount |-> 0, createdAt |-> 0, lastScanned |-> 0]

NewRec(id, text, t) ==
    [id |-> id, name |-> "Demo", originalText |-> text, logoPath |-> "none",
     scanCount |-> 0, createdAt |-> t, lastScanned |-> 0]

EmptyMap == [i \in Ids |-> NoRec]

VARIABLES
    windowDatabase,       \* typeof firebase !== 'undefined' && window.database
    firebaseInitialized,  \* module flag set by the initialisation block
    databaseAvailable,    \* module flag driven by the .info/connected subscription
    remote,               \* remote tier: qr-codes/<id>
    ls,                   \* localStorage: key slot, encrypted slot, plain slot
    now,                  \* the clock (Date.now / server time)
    lastOp,               \* the last FirebaseManager call and what it returned
    sc,                   \* the record created last and the scans it got since
    links,                \* the data parameter of the link generated for each id
    pc,                   \* redirect page: the state of the scan transaction
    rDatabase,            \* redirect page: its own window.database
    qrId,                 \* redirect page: this.qrId ("none": the link has no id)
    fallbackData,         \* redirect page: this.fallbackData, the link's data parameter
    qrData,               \* redirect page: the record resolved so far (NoRec: null)
    dataSource,           \* redirect page: the source that returned qrData
    consulted,            \* redirect page: the sources asked so far, in order
    incState,             \* redirect page: the incrementScanCount call
    asked,                \* redirect page: "no", or the answer confirm() got
    navTarget,            \* redirect page: what window.location.href was set to
    urlString,            \* isValidURL: the string it was last called with
    urlVerdict,           \* isValidURL: what that call returned ("none": no call yet)
    requests,             \* rateLimiter.requests.get('anonymous'), [] when unset
    admitted,             \* history: the times of all calls canMakeRequest admitted
    lastCall,             \* the last rate limiter / generateQRCode call and its result
    vcall,                \* the last direct CryptoManager call and its result
    kpc,                  \* concurrent setItem calls: where each one stands
    kkey,                 \* concurrent setItem calls: the CryptoKey each one holds
    kval,                 \* concurrent setItem calls: the value each one stores
    recent,               \* what getRecentQRCodes returned last
    tpc,                  \* remote transactions: where each client's call stands
    tval,                 \* remote transactions: the value each client's update ran on
    ppc,                  \* local store: what each page's call is in the middle of
    pmap,                 \* local store: the localQRs object of each page's call
    pid,                  \* local store: the id each page's call is about
    made,                 \* local store: the ids createQRCode has returned
    wcur,                 \* the subscription scanCountListener belongs to, 0: none
    wid,                  \* the record each subscription watches
    wtier,                \* the branch onScanCountChange took for each subscription
    won,                  \* the subscriptions whose 'value' listener is registered
    winit,                \* the registered listeners whose first event is due
    wtimer,               \* the subscriptions whose setTimeout is pending
    wcalls,               \* how often each subscription's callback was called
    wshown,               \* the record updateAnalytics was handed last
    tierRecs,             \* the records of the tier getRecentQRCodes listed, in key order
    vinput,               \* what validateQRInput was called with last
    vanswer,              \* what it answered: "ok" or the error thrown
    ifile,                \* the file validateImageFile was called with last
    ianswer,              \* what it answered: "ok" or the error thrown
    placed,               \* the stored string the page rendered last
    markup,               \* what each markup position was given for it
    uclock,               \* id generation: Date.now() of the creating pages
    ustore,               \* id generation: the records of the tier, as [id, text]
    ureturned,            \* id generation: the ids createQRCode returned, in order
    gstarted,             \* generator page: how many generateQRCode calls have started
    gtrigger,             \* generator page: the event that started each call
    gpc,                  \* generator page: where each generateQRCode call stands
    generateBtnDisabled,  \* generator page: generateBtn.disabled
    currentQRId           \* generator page: the call whose record currentQRId names, 0: null

storeVars == <<windowDatabase, firebaseInitialized, databaseAvailable, remote, ls, now>>
logVars == <<lastOp, sc, links>>
scanVars == <<pc, rDatabase, qrId, fallbackData, qrData, dataSource, consulted,
              incState, asked, navTarget>>
pageVars == <<storeVars, logVars, scanVars>>
urlVars == <<urlString, urlVerdict>>
limVars == <<requests, admitted, lastCall>>
keyVars == <<kpc, kkey, kval>>
txnVars == <<tpc, tval>>
raceVars == <<ppc, pmap, pid, made>>
watchVars == <<wcur, wid, wtier, won, winit, wtimer, wcalls, wshown>>
listVars == <<tierRecs>>
valVars == <<vinput, vanswer>>
imgVars == <<ifile, ianswer>>
markupVars == <<placed, markup>>
idVars == <<uclock, ustore, ureturned>>
genVars == <<gstarted, gtrigger, gpc, generateBtnDisabled, currentQRId>>
extraVars == <<imgVars, markupVars, idVars, genVars>>
opVars == <<recent, txnVars, raceVars, watchVars, listVars, valVars, extraVars>>
auxVars == <<urlVars, limVars, vcall, keyVars, opVars>>
vars == <<pageVars, auxVars>>

\* Everything but extraVars.
coreVars == <<pageVars, urlVars, limVars, vcall, keyVars, recent, txnVars, raceVars,
              watchVars, listVars, valVars>>

\* -------------------------------------------------------- connectivity
\* FirebaseStatus.isAvailable
IsAvailable == firebaseInitialized /\ databaseAvailable

\* --------------------------------------------------------- rate limiter
\* this.maxRequests, this.timeWindow (milliseconds)
MaxRequests == 10
TimeWindow == 60000

\* userRequests.filter(time => now - time < this.timeWindow)
RecentRequests(reqs, t) == SelectSeq(reqs, LAMBDA time : t - time < TimeWindow)

\* Mutant: the capacity check is off by one.
CanMakeRequestOffByOne(reqs, t) ==
    LET recentRequests == RecentRequests(reqs, t)
    IN  IF Len(recentRequests) > MaxRequests
        THEN [requests |-> reqs, ok |-> FALSE]
        ELSE [requests |-> Append(recentRequests, t), ok |-> TRUE]

\* RateLimiter.canMakeRequest at time t: [requests, ok]
CanMakeRequest(reqs, t) ==
    LET recentRequests == RecentRequests(reqs, t)
    IN  IF Len(recentRequests) >= MaxRequests
        THEN [requests |-> reqs, ok |-> FALSE]
        ELSE [requests |-> Append(recentRequests, t), ok |-> TRUE]

\* Math.max(0, a)
Max0(a) == IF a < 0 THEN 0 ELSE a

\* RateLimiter.getRemainingRequests at time t
GetRemainingRequests(reqs, t) == Max0(MaxRequests - Len(RecentRequests(reqs, t)))

NoCall == [op |-> "none", ok |-> FALSE, n |-> 0, outcome |-> "none"]

\* ------------------------------------------------------------ validator
\* What the generator form holds when generateQRCode reads it: the trimmed
\* text and the lengths of text and name, and whether one of the
\* maliciousPatterns matches the text or the name.
\* A field is seen through its length, its length after trim() and the
\* fragments it contains.
ValidInput == [text |-> TxtMeet, textLen |-> 29, textTrim |-> 29, textMarks |-> {},
               nameLen |-> 4, nameTrim |-> 4, nameMarks |-> {}]

\* What the generator page hands to the validator (both fields trimmed).
FormInputs ==
    { ValidInput,
      [ValidInput EXCEPT !.text = TxtHello, !.textLen = 0, !.textTrim = 0],
      [ValidInput EXCEPT !.textLen = 4001, !.textTrim = 4001],
      [ValidInput EXCEPT !.nameLen = 0, !.nameTrim = 0],
      [ValidInput EXCEPT !.nameLen = 101, !.nameTrim = 101],
      [ValidInput EXCEPT !.textMarks = {"<script>"}],
      [ValidInput EXCEPT !.nameMarks = {"<script>"}] }

\* The fragments a field may contain.
Fragments ==
    { "<script>", "<SCRIPT>", "<ScRiPt src=x>", "<script",
      "javascript:", "JavaScript:", "data:text/html", "VBScript:",
      "<iframe>", "<IFRAME>", "<Object>", "<EMBED>", "hello" }

\* The i flag of the patterns: letters are compared in lower case.
LowerCase(m) ==
    CASE m = "<SCRIPT>" -> "<script>"
      [] m = "<ScRiPt src=x>" -> "<script src=x>"
      [] m = "JavaScript:" -> "javascript:"
      [] m = "VBScript:" -> "vbscript:"
      [] m = "<IFRAME>" -> "<iframe>"
      [] m = "<Object>" -> "<object>"
      [] m = "<EMBED>" -> "<embed>"
      [] OTHER -> m

\* maliciousPatterns.some(pattern => pattern.test(field)), on the fragments
\* above: each pattern with the lower-case fragments it matches.
MaliciousPatterns ==
    { {"<script>", "<script src=x>"}, {"javascript:"}, {"data:text/html"},
      {"vbscript:"}, {"<iframe>"}, {"<object>"}, {"<embed>"} }

Malicious(marks) ==
    \E pattern \in MaliciousPatterns : \E m \in marks : LowerCase(m) \in pattern

\* Mutant: the limits are compared with >=.
ValidateQRInputOffByOne(i) ==
    IF i.textTrim = 0 THEN "text_missing"
    ELSE IF i.textLen >= 4000 THEN "text_too_long"
    ELSE IF i.nameTrim = 0 THEN "name_missing"
    ELSE IF i.nameLen >= 100 THEN "name_too_long"
    ELSE IF Malicious(i.textMarks) THEN "invalid_text"
    ELSE IF Malicious(i.nameMarks) THEN "invalid_name"
    ELSE "ok"

\* SecurityUtils.validateQRInput: "ok", or the error it throws.
\* !text || text.trim().length === 0 is: the trimmed length is 0.
ValidateQRInput(i) ==
    IF i.textTrim = 0 THEN "text_missing"
    ELSE IF i.textLen > 4000 THEN "text_too_long"
    ELSE IF i.nameTrim = 0 THEN "name_missing"
    ELSE IF i.nameLen > 100 THEN "name_too_long"
    ELSE IF Malicious(i.textMarks) THEN "invalid_text"
    ELSE IF Malicious(i.nameMarks) THEN "invalid_name"
    ELSE "ok"

\* The fields validateQRInput can be called with: [len, trim, marks].
Field(len, trim, marks) == [len |-> len, trim |-> trim, marks |-> marks]

FieldsUpTo(max) ==
    {Field(0, 0, {}), Field(3, 0, {})}
        \cup {Field(l, l, {m}) : l \in {20, max, max + 1}, m \in Fragments}
        \cup {Field(max + 1, max - 1, {"hello"})}

InputOf(text, name) ==
    [text |-> TxtHello, textLen |-> text.len, textTrim |-> text.trim, textMarks |-> text.marks,
     nameLen |-> name.len, nameTrim |-> name.trim, nameMarks |-> name.marks]

ValidatorInputs == {InputOf(text, name) : text \in FieldsUpTo(4000), name \in FieldsUpTo(100)}

\* ---- validateImageFile
\* A file is seen through its declared type, its size, its first bytes and
\* its name, the name as the sequence of its dot-separated parts.
NoFile == [type |-> "", size |-> 0, head |-> <<>>, name |-> <<>>]

AllowedTypes == {"image/jpeg", "image/jpg", "image/png", "image/gif", "image/webp"}

\* 2 * 1024 * 1024
MaxSize == 2097152

\* The signatures of validateImageSignature, by format.
Signatures ==
    [ jpeg |-> {<<255, 216, 255>>},
      png  |-> {<<137, 80, 78, 71, 13, 10, 26, 10>>},
      gif  |-> {<<71, 73, 70, 56>>, <<71, 73, 70, 57>>},
      webp |-> {<<82, 73, 70, 70>>} ]

\* sig.every((byte, index) => bytes[index] === byte)
StartsWith(bytes, sig) ==
    /\ Len(bytes) >= Len(sig)
    /\ \A index \in 1..Len(sig) : bytes[index] = sig[index]

\* validateImageSignature on the first 12 bytes: the format found, or "false"
ValidateImageSignature(head) ==
    LET bytes == SubSeq(head, 1, IF Len(head) > 12 THEN 12 ELSE Len(head))
        Found(format) == \E sig \in Signatures[format] : StartsWith(bytes, sig)
    IN  IF Found("jpeg") THEN "jpeg"
        ELSE IF Found("png") THEN "png"
        ELSE IF Found("gif") THEN "gif"
        ELSE IF Found("webp") THEN "webp"
        ELSE "false"

\* toLowerCase() on the types and name parts of the model.
LowerWord(w) ==
    CASE w = "IMAGE/PNG" -> "image/png"
      [] w = "EXE" -> "exe"
      [] w = "Logo" -> "logo"
      [] w = "PNG" -> "png"
      [] OTHER -> w

\* The lower-case name parts that begin with the letters of a suspicious
\* extension ('.exe', '.bat', '.cmd', '.com', '.scr', '.js', '.vbs',
\* '.php', '.asp'), so that the name includes the extension when the part
\* follows a dot.
SuspiciousStarts == {"exe", "bat", "cmd", "com", "company", "scr", "js", "json", "vbs", "php", "asp"}

\* suspiciousExtensions.some(ext => fileName.includes(ext))
HasSuspiciousExtension(name) ==
    \E k \in 2..Len(name) : LowerWord(name[k]) \in SuspiciousStarts

\* Mutant: the file name is not looked at.
ValidateImageFileNoName(file) ==
    IF LowerWord(file.type) \notin AllowedTypes THEN "bad_type"
    ELSE IF file.size > MaxSize THEN "too_large"
    ELSE IF ValidateImageSignature(file.head) = "false" THEN "bad_signature"
    ELSE "ok"

\* SecurityUtils.validateImageFile: "ok", or the error it throws
ValidateImageFile(file) ==
    IF LowerWord(file.type) \notin AllowedTypes THEN "bad_type"
    ELSE IF file.size > MaxSize THEN "too_large"
    ELSE IF ValidateImageSignature(file.head) = "false" THEN "bad_signature"
    ELSE IF HasSuspiciousExtension(file.name) THEN "suspicious_name"
    ELSE "ok"

\* The files the upload field can be given.
FileTypes == {"image/jpeg", "image/png", "IMAGE/PNG", "image/webp", "image/svg+xml", "text/html", ""}
FileSizes == {0, 1024, MaxSize, MaxSize + 1}
FileHeads ==
    { <<>>, <<255, 216, 255, 224>>, <<137, 80, 78, 71, 13, 10, 26, 10, 0, 0, 0, 13, 73>>,
      <<137, 80, 78>>, <<71, 73, 70, 56, 57, 97>>,
      <<82, 73, 70, 70, 0, 0, 0, 0, 87, 69, 66, 80>>,
      <<77, 90, 144, 0>>, <<60, 104, 116, 109, 108>> }
FileNames ==
    { <<"logo", "png">>, <<"Logo", "PNG">>, <<"logo">>, <<"exe", "png">>,
      <<"logo", "exe">>, <<"logo", "EXE", "png">>, <<"logo", "php", "png">>,
      <<"my", "company", "png">>, <<"data", "json">> }
Files == [type : FileTypes, size : FileSizes, head : FileHeads, name : FileNames]

\* ---- escapeHTML, sanitizeText, truncateText
\* A string is a run of pad letters followed by a few symbols: characters,
\* and "javascript:" and "onload=" standing for those letters.
DQ == "\""
Symbols == {"a", "<", ">", "&", "'", DQ, "javascript:", "onload="}
NoString == [pad |-> 0, tail |-> <<>>]

RECURSIVE Flatten(_)
Flatten(seqs) == IF seqs = <<>> THEN <<>> ELSE Head(seqs) \o Flatten(Tail(seqs))

\* div.textContent = text; div.innerHTML: the serialisation of a text node
\* replaces &, < and > and leaves quotes as they are.
EscapeChar(c) ==
    CASE c = "&" -> <<"&", "a", "m", "p", ";">>
      [] c = "<" -> <<"&", "l", "t", ";">>
      [] c = ">" -> <<"&", "g", "t", ";">>
      [] OTHER -> <<c>>

EscapeHTML(text) ==
    [pad |-> text.pad, tail |-> Flatten([k \in 1..Len(text.tail) |-> EscapeChar(text.tail[k])])]

\* sanitizeText: escapeHTML, then javascript: and on...= are cut out (the
\* script pattern finds no < left to match).
SanitizeText(text) ==
    LET sanitized == EscapeHTML(text)
    IN  [sanitized EXCEPT !.tail = SelectSeq(sanitized.tail,
                                             LAMBDA c : c \notin {"javascript:", "onload="})]

\* truncateText(text, maxLength)
TruncateText(text, maxLength) ==
    LET sanitized == SanitizeText(text)
        keep == maxLength - 3
        dots == <<".", ".", ".">>
    IN  IF sanitized.pad + Len(sanitized.tail) <= maxLength THEN sanitized
        ELSE IF sanitized.pad >= keep THEN [pad |-> keep, tail |-> dots]
        ELSE [pad |-> sanitized.pad, tail |-> SubSeq(sanitized.tail, 1, keep - sanitized.pad) \o dots]

\* .replace(/'/g, '&#39;')
ReplaceQuotes(text) ==
    [text EXCEPT !.tail = Flatten([k \in 1..Len(text.tail) |->
                                      IF text.tail[k] = "'" THEN <<"&", "#", "3", "9", ";">>
                                      ELSE <<text.tail[k]>>])]

\* The markup positions: the content text and the argument of the copy
\* button's handler of showTextContent; the name, the text, the argument
\* of the item's handler and the data-qr-id attribute of a recent item.
NoMarkup == [by |-> "none", contentText |-> NoString, copyArg |-> NoString,
             recentName |-> NoString, recentText |-> NoString,
             loadArg |-> NoString, dataQrId |-> NoString]

\* The strings a record or a link payload can hold.
Tails == UNION {[1..n -> Symbols] : n \in 0..MaxChars}
Strings == [pad : {0, 36, 41}, tail : Tails]

\* ---------------------------------------------------------------- vault
NoEnc   == [present |-> FALSE, key |-> 0, data |-> EmptyMap]
NoPlain == [present |-> FALSE, data |-> EmptyMap]

NewKey == 1

\* CryptoManager.getOrCreateKey: the stored key, or a new one that is stored.
GetOrCreateKey(l) ==
    IF l.key = 0
    THEN [ls |-> [l EXCEPT !.key = NewKey], key |-> NewKey]
    ELSE [ls |-> l, key |-> l.key]

\* CryptoManager.setItem(key, data).  encOK: key retrieval and encryption
\* succeed; otherwise the catch stores the plaintext in the unprefixed slot.
SetItem(l, data, encOK) ==
    IF encOK
    THEN LET k == GetOrCreateKey(l)
         IN  [k.ls EXCEPT !.enc = [present |-> TRUE, key |-> k.key, data |-> data]]
    ELSE [l EXCEPT !.plain = [present |-> TRUE, data |-> data]]

\* CryptoManager.getItem(key).  decOK: key retrieval and decryption succeed;
\* encOK is handed to the setItem of the migration path.  The result is
\* [ls, some, data]: some = FALSE stands for null.  It never throws.
GetItem(l, decOK, encOK) ==
    IF l.enc.present
    THEN LET k == GetOrCreateKey(l)
         IN  IF decOK /\ k.key = l.enc.key
             THEN [ls |-> k.ls, some |-> TRUE, data |-> l.enc.data, threw |-> FALSE]
             ELSE [ls |-> l, some |-> FALSE, data |-> EmptyMap, threw |-> FALSE]
    ELSE IF l.plain.present
         THEN LET migrated == SetItem(l, l.plain.data, encOK)
              IN  [ls |-> [migrated EXCEPT !.plain = NoPlain],
                   some |-> TRUE, data |-> l.plain.data, threw |-> FALSE]
         ELSE [ls |-> l, some |-> FALSE, data |-> EmptyMap, threw |-> FALSE]

\* Mutant: the catch of setItem rethrows instead of storing the plaintext.
SetItemRethrows(l, data, encOK) ==
    IF encOK
    THEN [ls |-> SetItem(l, data, encOK), threw |-> FALSE]
    ELSE [ls |-> l, threw |-> TRUE]

\* What a caller of setItem sees: the catch stores and returns, nothing is
\* thrown on.  [ls, threw]
SetItemOutcome(l, data, encOK) == [ls |-> SetItem(l, data, encOK), threw |-> FALSE]

\* The values stored under 'qr-codes' by direct calls.
ValA == [EmptyMap EXCEPT !["q1"] = NewRec("q1", TxtMeet, 1)]
ValB == [EmptyMap EXCEPT !["q2"] = NewRec("q2", TxtEvil, 1)]
ValAB == [ValA EXCEPT !["q2"] = NewRec("q2", TxtEvil, 1)]
VaultValues == {ValA, ValB, ValAB}

NoVaultCall == [op |-> "none", data |-> EmptyMap, some |-> FALSE, encOK |-> TRUE,
                decOK |-> TRUE, migrated |-> FALSE, threw |-> FALSE]

\* Concurrent callers of setItem, and the key generateKey gives each.
Ops == 1..NumOps
GeneratedKey(p) == NewKey + p - 1

\* `await getItem('qr-codes') || {}`
OrEmpty(g) == IF g.some THEN g.data ELSE EmptyMap

\* ------------------------------------------------------ FirebaseManager
\* What the environment does to one call: remoteOK, the remote request is
\* answered without an error; decOK / encOK, key retrieval and decryption /
\* encryption succeed in the vault.
Faults == [remoteOK : BOOLEAN, decOK : BOOLEAN, encOK : BOOLEAN]
AllOK == [remoteOK |-> TRUE, decOK |-> TRUE, encOK |-> TRUE]

\* The condition every FirebaseManager operation branches on:
\* typeof firebase !== 'undefined' && window.database, on the calling page.
UseRemote(db) == db

\* createQRCode on a page whose window.database is db: [remote, ls, threw]
CreateQRCode(db, rem, l, id, text, t, f) ==
    IF UseRemote(db)
    THEN IF f.remoteOK
         THEN [remote |-> [rem EXCEPT ![id] = NewRec(id, text, t)], ls |-> l, threw |-> FALSE]
         ELSE [remote |-> rem, ls |-> l, threw |-> TRUE]
    ELSE LET g == GetItem(l, f.decOK, f.encOK)
             localQRs == [OrEmpty(g) EXCEPT ![id] = NewRec(id, text, t)]
         IN  [remote |-> rem, ls |-> SetItem(g.ls, localQRs, f.encOK), threw |-> FALSE]

\* getQRCode: [ls, rec, threw]; rec = NoRec stands for null
GetQRCode(db, rem, l, id, f) ==
    IF UseRemote(db)
    THEN IF f.remoteOK
         THEN [ls |-> l, rec |-> rem[id], threw |-> FALSE]
         ELSE [ls |-> l, rec |-> NoRec, threw |-> TRUE]
    ELSE LET g == GetItem(l, f.decOK, f.encOK)
         IN  [ls |-> g.ls, rec |-> OrEmpty(g)[id], threw |-> FALSE]

\* The transaction's update function, and the local read-modify-write.
Scanned(rec, t) == [rec EXCEPT !.scanCount = rec.scanCount + 1, !.lastScanned = t]

\* incrementScanCount: [remote, ls, threw]
IncrementScanCount(db, rem, l, id, t, f) ==
    IF UseRemote(db)
    THEN IF f.remoteOK
         THEN [remote |-> IF rem[id] # NoRec THEN [rem EXCEPT ![id] = Scanned(rem[id], t)] ELSE rem,
               ls |-> l, threw |-> FALSE]
         ELSE [remote |-> rem, ls |-> l, threw |-> TRUE]
    ELSE LET g == GetItem(l, f.decOK, f.encOK)
             localQRs == OrEmpty(g)
         IN  IF localQRs[id] # NoRec
             THEN [remote |-> rem,
                   ls |-> SetItem(g.ls, [localQRs EXCEPT ![id] = Scanned(localQRs[id], t)], f.encOK),
                   threw |-> FALSE]
             ELSE [remote |-> rem, ls |-> g.ls, threw |-> FALSE]

\* ---- generateUniqueId
\* The values Math.random() takes in the model.
Randoms == {0, 1}

\* Date.now().toString(36) + Math.random().toString(36).substr(2): the
\* two parts of the id.
GenerateUniqueId(millis, random) == [stamp |-> millis, suffix |-> random]

\* ref('qr-codes/' + qrId).set(...) and localQRs[qrId] = qrData: the entry
\* under the id is replaced.
Written(store, id, text) ==
    {e \in store : e.id # id} \cup {[id |-> id, text |-> text]}

\* ---- getRecentQRCodes
\* .limitToLast(10) and .slice(0, 10)
RecentLimit == 10

\* A stable sort of records by createdAt, ascending (orderByChild) and
\* descending (sort((a, b) => b.createdAt - a.createdAt)).
RECURSIVE InsertAsc(_, _)
InsertAsc(sorted, x) ==
    IF sorted = <<>> THEN <<x>>
    ELSE IF sorted[Len(sorted)].createdAt <= x.createdAt THEN Append(sorted, x)
    ELSE Append(InsertAsc(SubSeq(sorted, 1, Len(sorted) - 1), x), sorted[Len(sorted)])

RECURSIVE InsertDesc(_, _)
InsertDesc(sorted, x) ==
    IF sorted = <<>> THEN <<x>>
    ELSE IF sorted[Len(sorted)].createdAt >= x.createdAt THEN Append(sorted, x)
    ELSE Append(InsertDesc(SubSeq(sorted, 1, Len(sorted) - 1), x), sorted[Len(sorted)])

RECURSIVE SortAsc(_)
SortAsc(recs) ==
    IF recs = <<>> THEN <<>>
    ELSE InsertAsc(SortAsc(SubSeq(recs, 1, Len(recs) - 1)), recs[Len(recs)])

RECURSIVE SortDesc(_)
SortDesc(recs) ==
    IF recs = <<>> THEN <<>>
    ELSE InsertDesc(SortDesc(SubSeq(recs, 1, Len(recs) - 1)), recs[Len(recs)])

\* snapshot.forEach(child => qrCodes.unshift(child.val()))
Reversed(recs) == [i \in 1..Len(recs) |-> recs[Len(recs) + 1 - i]]

\* The remote query on records listed in key order: ordered by createdAt,
\* the last 10, newest first.
RemoteRecent(recs) ==
    LET ordered == SortAsc(recs)
        from == IF Len(ordered) > RecentLimit THEN Len(ordered) - RecentLimit + 1 ELSE 1
    IN  Reversed(SubSeq(ordered, from, Len(ordered)))

\* The local list on Object.values(localQRs): sorted newest first, cut at 10.
LocalRecent(recs) ==
    LET ordered == SortDesc(recs)
    IN  SubSeq(ordered, 1, IF Len(ordered) > RecentLimit THEN RecentLimit ELSE Len(ordered))

\* The records of a tier, in key order.
IdSeq == <<"q1", "q2">>
Values(m) == SelectSeq([i \in 1..Len(IdSeq) |-> m[IdSeq[i]]], LAMBDA rec : rec # NoRec)

\* getRecentQRCodes on a tier that holds the records recs (in key order);
\* ok: the query, or the reading of the slot, succeeds.
RecentOf(db, recs, ok) ==
    IF ~ok THEN <<>>
    ELSE IF UseRemote(db) THEN RemoteRecent(recs) ELSE LocalRecent(recs)

\* The creation stamps of the listed records, and the tiers listed.
Stamps == {1, 2}
Entries(stamps) == [i \in 1..Len(stamps) |-> [id |-> i, createdAt |-> stamps[i]]]
TierContents == {Entries(st) : st \in UNION {[1..n -> Stamps] : n \in 0..MaxEntries}}

\* getRecentQRCodes: [ls, list, threw]; the catch returns [].
GetRecentQRCodes(db, rem, l, f) ==
    IF UseRemote(db)
    THEN IF f.remoteOK
         THEN [ls |-> l, list |-> RemoteRecent(Values(rem)), threw |-> FALSE]
         ELSE [ls |-> l, list |-> <<>>, threw |-> FALSE]
    ELSE LET g == GetItem(l, f.decOK, f.encOK)
         IN  [ls |-> g.ls, list |-> LocalRecent(Values(OrEmpty(g))), threw |-> FALSE]

\* ---- the remote transaction of incrementScanCount
Clients == 1..NumClients

\* The record every client's link points to.
ScannedId == "q1"

\* The update function handed to qrRef.transaction
TransactionUpdate(currentData, t) ==
    IF currentData # NoRec THEN Scanned(currentData, t) ELSE currentData

\* ---- the local branch of createQRCode and incrementScanCount, by awaits
Pages == 1..NumPages

\* What the 'qr-codes' slot of the local store holds.
Stored(l) ==
    IF l.enc.present THEN l.enc.data
    ELSE IF l.plain.present THEN l.plain.data
    ELSE EmptyMap

\* ---- onScanCountChange
Subs == 1..MaxSubs

\* The listener's and the timer's callback: if (data && callback) callback(data)
Called(calls, w, data) ==
    IF data # NoRec THEN [calls EXCEPT ![w] = calls[w] + 1] ELSE calls

Shown(shown, data) == IF data # NoRec THEN data ELSE shown

\* The handle onScanCountChange returned: qrRef.off('value') removes the
\* 'value' listeners of the location; on the local branch it does nothing.
Unsubscribed(on, w) ==
    IF w # 0 /\ wtier[w] = "remote" THEN {x \in on : wid[x] # wid[w]} ELSE on

Tier(db) == IF UseRemote(db) THEN "remote" ELSE "local"

NoOp == [op |-> "none", tier |-> "none", avail |-> FALSE, threw |-> FALSE]
NoSc == [id |-> "none", text |-> NoText, incs |-> 0]

\* The bookkeeping of a FirebaseManager call made on a page with flag db.
Logged(op, db, threw) == [op |-> op, tier |-> Tier(db), avail |-> IsAvailable, threw |-> threw]

ScAfterCreate(s, id, text, threw) ==
    IF threw THEN s ELSE [id |-> id, text |-> text, incs |-> 0]

ScAfterIncrement(s, id, threw) ==
    IF threw THEN s
    ELSE IF s.id = id THEN [s EXCEPT !.incs = s.incs + 1]
    ELSE NoSc

\* ---------------------------------------------------------------- links
\* The data parameter of a link: absent, a string that does not decode, or
\* btoa(JSON.stringify({text, name, created})).
NoLink         == [kind |-> "nolink",  name |-> "", text |-> NoText, created |-> 0]
NoPayload      == [kind |-> "absent",  name |-> "", text |-> NoText, created |-> 0]
GarbledPayload == [kind |-> "garbled", name |-> "", text |-> NoText, created |-> 0]
OkPayload(text, t) == [kind |-> "ok", name |-> "Demo", text |-> text, created |-> t]

\* QRGenerator.generateQRCode, after createQRCode returned: the redirect URL
\* gets the data parameter when FirebaseStatus.isAvailable() is false.
LinkFor(text, t) == IF ~IsAvailable THEN OkPayload(text, t) ELSE NoPayload

\* The links a scan of id can arrive with: the generated one, the same link
\* with its data parameter dropped (copyQRLink) or cut short.
LinksOf(id) ==
    IF id = "none" THEN {NoPayload}
    ELSE IF links[id].kind = "ok" THEN {links[id], NoPayload, GarbledPayload}
    ELSE {NoPayload}

\* The fault choices that matter on a page whose window.database is db.
FaultsOn(db) ==
    IF db THEN {f \in Faults : f.decOK /\ f.encOK} ELSE {f \in Faults : f.remoteOK}

\* ------------------------------------------------------------- actions
\* The .info/connected subscription of the generator page delivers a value.
ConnectivityChange ==
    /\ firebaseInitialized
    /\ databaseAvailable' = ~databaseAvailable
    /\ UNCHANGED <<auxVars, windowDatabase, firebaseInitialized, remote, ls, now, logVars, scanVars>>

\* The generator page calls FirebaseManager.createQRCode(text, "Demo", "none").
Create(id, text, f) ==
    /\ now < MaxTime
    /\ LET r == CreateQRCode(windowDatabase, remote, ls, id, text, now, f)
       IN  /\ remote' = r.remote
           /\ ls' = r.ls
           /\ lastOp' = Logged("create", windowDatabase, r.threw)
           /\ sc' = ScAfterCreate(sc, id, text, r.threw)
           /\ links' = IF r.threw THEN links ELSE [links EXCEPT ![id] = LinkFor(text, now)]
    /\ now' = now + 1
    /\ UNCHANGED <<auxVars, windowDatabase, firebaseInitialized, databaseAvailable, scanVars>>

\* The generator page calls FirebaseManager.getQRCode(id).
Get(id, f) ==
    /\ LET r == GetQRCode(windowDatabase, remote, ls, id, f)
       IN  /\ ls' = r.ls
           /\ lastOp' = Logged("get", windowDatabase, r.threw)
    /\ UNCHANGED <<auxVars, windowDatabase, firebaseInitialized, databaseAvailable, remote, now, sc, links, scanVars>>

\* The generator page calls FirebaseManager.getRecentQRCodes().
Recent(f) ==
    /\ LET r == GetRecentQRCodes(windowDatabase, remote, ls, f)
       IN  /\ ls' = r.ls
           /\ recent' = r.list
           /\ lastOp' = Logged("recent", windowDatabase, r.threw)
    /\ UNCHANGED <<windowDatabase, firebaseInitialized, databaseAvailable, remote, now, sc,
                   links, scanVars, urlVars, limVars, vcall, keyVars, listVars, valVars, extraVars, txnVars, raceVars, watchVars>>

\* The generator page calls FirebaseManager.incrementScanCount(id).
IncrementScan(id, f) ==
    /\ now < MaxTime
    /\ LET r == IncrementScanCount(windowDatabase, remote, ls, id, now, f)
       IN  /\ remote' = r.remote
           /\ ls' = r.ls
           /\ lastOp' = Logged("increment", windowDatabase, r.threw)
           /\ sc' = ScAfterIncrement(sc, id, r.threw)
    /\ now' = now + 1
    /\ UNCHANGED <<auxVars, windowDatabase, firebaseInitialized, databaseAvailable, links, scanVars>>

\* Time passes on the generator page.
Tick(d) ==
    /\ now + d <= MaxClock
    /\ now' = now + d
    /\ UNCHANGED <<windowDatabase, firebaseInitialized, databaseAvailable, remote, ls,
                   logVars, scanVars, urlVars, opVars, limVars, vcall, keyVars>>

\* window.rateLimiter.canMakeRequest() is called.
L_CanMakeRequest ==
    /\ LET r == CanMakeRequest(requests, now)
       IN  /\ requests' = r.requests
           /\ admitted' = IF r.ok THEN Append(admitted, now) ELSE admitted
           /\ lastCall' = [op |-> "canMakeRequest", ok |-> r.ok, n |-> 0, outcome |-> "none"]
    /\ UNCHANGED <<pageVars, urlVars, opVars, vcall, keyVars>>

\* Mutant: the read stores the filtered list.
L_GetRemainingRequestsPrunes ==
    /\ lastCall' = [op |-> "getRemainingRequests", ok |-> FALSE,
                    n |-> GetRemainingRequests(requests, now), outcome |-> "none"]
    /\ requests' = RecentRequests(requests, now)
    /\ UNCHANGED <<pageVars, urlVars, opVars, admitted, vcall, keyVars>>

\* window.rateLimiter.getRemainingRequests() is called.
L_GetRemainingRequests ==
    /\ lastCall' = [op |-> "getRemainingRequests", ok |-> FALSE,
                    n |-> GetRemainingRequests(requests, now), outcome |-> "none"]
    /\ UNCHANGED <<pageVars, urlVars, opVars, requests, admitted, vcall, keyVars>>

\* QRGenerator.generateQRCode with the form holding input i; id is what
\* generateUniqueId returns, an id no link was made for yet.  The rate
\* limiter is asked first, then the validator, then
\* FirebaseManager.createQRCode.
G_GenerateQRCode(i, id, f) ==
    LET can == CanMakeRequest(requests, now)
        verdict == ValidateQRInput(i)
        r == CreateQRCode(windowDatabase, remote, ls, id, i.text, now, f)
        Call(outcome) == [op |-> "generateQRCode", ok |-> can.ok,
                          n |-> IF can.ok THEN 0 ELSE GetRemainingRequests(requests, now),
                          outcome |-> outcome]
    IN  /\ links[id] = NoLink
        /\ requests' = can.requests
        /\ admitted' = IF can.ok THEN Append(admitted, now) ELSE admitted
        /\ IF ~can.ok
           THEN /\ lastCall' = Call("rate_limited")
                /\ UNCHANGED <<remote, ls, logVars>>
           ELSE IF verdict # "ok"
           THEN /\ lastCall' = Call(verdict)
                /\ UNCHANGED <<remote, ls, logVars>>
           ELSE /\ lastCall' = Call(IF r.threw THEN "store_failed" ELSE "created")
                /\ remote' = r.remote
                /\ ls' = r.ls
                /\ lastOp' = Logged("create", windowDatabase, r.threw)
                /\ sc' = ScAfterCreate(sc, id, i.text, r.threw)
                /\ links' = IF r.threw THEN links ELSE [links EXCEPT ![id] = LinkFor(i.text, now)]
        /\ UNCHANGED <<windowDatabase, firebaseInitialized, databaseAvailable, now,
                       scanVars, urlVars, opVars, vcall, keyVars>>

\* SecurityUtils.CryptoManager.setItem('qr-codes', v) is called.
V_SetItem(v, encOK) ==
    /\ LET r == SetItemOutcome(ls, v, encOK)
       IN  /\ ls' = r.ls
           /\ vcall' = [op |-> "setItem", data |-> v, some |-> FALSE, encOK |-> encOK,
                        decOK |-> TRUE, migrated |-> FALSE, threw |-> r.threw]
    /\ UNCHANGED <<windowDatabase, firebaseInitialized, databaseAvailable, remote, now,
                   logVars, scanVars, urlVars, opVars, limVars, keyVars>>

\* SecurityUtils.CryptoManager.getItem('qr-codes') is called.
V_GetItem(decOK, encOK) ==
    /\ LET g == GetItem(ls, decOK, encOK)
       IN  /\ ls' = g.ls
           /\ vcall' = [op |-> "getItem", data |-> g.data, some |-> g.some, encOK |-> encOK,
                        decOK |-> decOK, migrated |-> ~ls.enc.present /\ ls.plain.present,
                        threw |-> g.threw]
    /\ UNCHANGED <<windowDatabase, firebaseInitialized, databaseAvailable, remote, now,
                   logVars, scanVars, urlVars, opVars, limVars, keyVars>>

\* setItem('qr-codes', v), one suspension point at a time.  The call
\* starts: getOrCreateKey reads the key slot; with a key stored it imports
\* it, without one it goes on to generateKey.
K_ReadKey(p, v) ==
    /\ kpc[p] = "idle"
    /\ kval' = [kval EXCEPT ![p] = v]
    /\ IF ls.key = 0
       THEN /\ kpc' = [kpc EXCEPT ![p] = "generating"]
            /\ kkey' = [kkey EXCEPT ![p] = 0]
       ELSE /\ kpc' = [kpc EXCEPT ![p] = "encrypting"]
            /\ kkey' = [kkey EXCEPT ![p] = ls.key]
    /\ UNCHANGED <<pageVars, urlVars, opVars, limVars, vcall>>

\* generateKey and exportKey have resolved: the new key is stored in the
\* key slot and returned.
K_StoreKey(p) ==
    /\ kpc[p] = "generating"
    /\ ls' = [ls EXCEPT !.key = GeneratedKey(p)]
    /\ kkey' = [kkey EXCEPT ![p] = GeneratedKey(p)]
    /\ kpc' = [kpc EXCEPT ![p] = "encrypting"]
    /\ UNCHANGED <<windowDatabase, firebaseInitialized, databaseAvailable, remote, now,
                   logVars, scanVars, urlVars, opVars, limVars, vcall, kval>>

\* encrypt has resolved: the encrypted slot is written and setItem returns.
K_WriteSlot(p) ==
    /\ kpc[p] = "encrypting"
    /\ ls' = [ls EXCEPT !.enc = [present |-> TRUE, key |-> kkey[p], data |-> kval[p]]]
    /\ kpc' = [kpc EXCEPT ![p] = "idle"]
    /\ UNCHANGED <<windowDatabase, firebaseInitialized, databaseAvailable, remote, now,
                   logVars, scanVars, urlVars, opVars, limVars, vcall, kkey, kval>>

\* A generator page with the SDK has created the record.
T_Seed ==
    /\ remote[ScannedId] = NoRec
    /\ remote' = CreateQRCode(TRUE, remote, ls, ScannedId, TxtMeet, now, AllOK).remote
    /\ UNCHANGED <<windowDatabase, firebaseInitialized, databaseAvailable, ls, now,
                   logVars, scanVars, urlVars, limVars, vcall, keyVars, listVars, valVars, extraVars, recent, txnVars, raceVars, watchVars>>

\* A client calls incrementScanCount: qrRef.transaction runs the update
\* function on what the client has cached for the location, nothing (null)
\* or the value the server holds at the moment.
T_Start(c, cached) ==
    /\ tpc[c] = "idle"
    /\ remote[ScannedId] # NoRec
    /\ tpc' = [tpc EXCEPT ![c] = "running"]
    /\ tval' = [tval EXCEPT ![c] = IF cached THEN remote[ScannedId] ELSE NoRec]
    /\ UNCHANGED <<pageVars, urlVars, limVars, vcall, keyVars, listVars, valVars, extraVars, recent, raceVars, watchVars>>

\* Mutant: the result of the update function is written whatever the
\* server holds by now (a plain read-modify-write).
T_CommitBlind(c) ==
    /\ tpc[c] = "running"
    /\ remote' = [remote EXCEPT ![ScannedId] = TransactionUpdate(tval[c], now)]
    /\ tpc' = [tpc EXCEPT ![c] = "done"]
    /\ UNCHANGED <<windowDatabase, firebaseInitialized, databaseAvailable, ls, now,
                   logVars, scanVars, urlVars, limVars, vcall, keyVars, listVars, valVars, extraVars, recent, tval, raceVars, watchVars>>

\* The server receives the client's result: it is written if the location
\* still holds the value the update function ran on; otherwise the server
\* answers with the current value and the update function runs again.
T_Commit(c) ==
    /\ tpc[c] = "running"
    /\ IF remote[ScannedId] = tval[c]
       THEN /\ remote' = [remote EXCEPT ![ScannedId] = TransactionUpdate(tval[c], now)]
            /\ tpc' = [tpc EXCEPT ![c] = "done"]
            /\ tval' = tval
       ELSE /\ tval' = [tval EXCEPT ![c] = remote[ScannedId]]
            /\ UNCHANGED <<remote, tpc>>
    /\ UNCHANGED <<windowDatabase, firebaseInitialized, databaseAvailable, ls, now,
                   logVars, scanVars, urlVars, limVars, vcall, keyVars, listVars, valVars, extraVars, recent, raceVars, watchVars>>

\* A page without the SDK calls createQRCode: the record is built and the
\* slot is read; the call is then waiting for setItem.
P_CreateRead(p, id, decOK) ==
    /\ ppc[p] = "idle"
    /\ id \notin made
    /\ \A q \in Pages : ppc[q] = "creating" => pid[q] # id
    /\ LET g == GetItem(ls, decOK, TRUE)
       IN  /\ ls' = g.ls
           /\ pmap' = [pmap EXCEPT ![p] = [OrEmpty(g) EXCEPT ![id] = NewRec(id, TxtMeet, now)]]
    /\ ppc' = [ppc EXCEPT ![p] = "creating"]
    /\ pid' = [pid EXCEPT ![p] = id]
    /\ UNCHANGED <<windowDatabase, firebaseInitialized, databaseAvailable, remote, now,
                   logVars, scanVars, urlVars, limVars, vcall, keyVars, listVars, valVars, extraVars, recent, txnVars, watchVars, made>>

\* A page without the SDK calls incrementScanCount: the slot is read and,
\* if the record is in it, counted in the page's copy.
P_ScanRead(p, id, decOK) ==
    /\ ppc[p] = "idle"
    /\ LET g == GetItem(ls, decOK, TRUE)
           localQRs == OrEmpty(g)
       IN  /\ ls' = g.ls
           /\ IF localQRs[id] # NoRec
              THEN /\ localQRs[id].scanCount < MaxScans
                   /\ pmap' = [pmap EXCEPT ![p] = [localQRs EXCEPT ![id] = Scanned(localQRs[id], now)]]
                   /\ ppc' = [ppc EXCEPT ![p] = "scanning"]
                   /\ pid' = [pid EXCEPT ![p] = id]
              ELSE UNCHANGED <<pmap, ppc, pid>>
    /\ UNCHANGED <<windowDatabase, firebaseInitialized, databaseAvailable, remote, now,
                   logVars, scanVars, urlVars, limVars, vcall, keyVars, listVars, valVars, extraVars, recent, txnVars, watchVars, made>>

\* The page's setItem writes its copy of the whole object; the call returns.
P_Write(p) ==
    /\ ppc[p] # "idle"
    /\ ls' = SetItem(ls, pmap[p], TRUE)
    /\ made' = IF ppc[p] = "creating" THEN made \cup {pid[p]} ELSE made
    /\ ppc' = [ppc EXCEPT ![p] = "idle"]
    /\ UNCHANGED <<windowDatabase, firebaseInitialized, databaseAvailable, remote, now,
                   logVars, scanVars, urlVars, limVars, vcall, keyVars, listVars, valVars, extraVars, recent, txnVars,
                   watchVars, pmap, pid>>

\* startScanCountListener(id): the previous handle is called, then
\* FirebaseManager.onScanCountChange(id, data => updateAnalytics(data)).
W_Start(id) ==
    /\ wcur < MaxSubs
    /\ LET w == wcur + 1
           kept == Unsubscribed(won, wcur)
       IN  /\ wcur' = w
           /\ wid' = [wid EXCEPT ![w] = id]
           /\ wtier' = [wtier EXCEPT ![w] = Tier(windowDatabase)]
           /\ IF UseRemote(windowDatabase)
              THEN /\ won' = kept \cup {w}
                   /\ winit' = (winit \cap kept) \cup {w}
                   /\ wtimer' = wtimer
              ELSE /\ won' = kept
                   /\ winit' = winit \cap kept
                   /\ wtimer' = wtimer \cup {w}
    /\ UNCHANGED <<pageVars, urlVars, limVars, vcall, keyVars, listVars, valVars, extraVars, recent, txnVars, raceVars,
                   wcalls, wshown>>

\* The first 'value' event of a registered listener arrives.
W_Initial(w) ==
    /\ w \in winit
    /\ winit' = winit \ {w}
    /\ wcalls' = Called(wcalls, w, remote[wid[w]])
    /\ wshown' = Shown(wshown, remote[wid[w]])
    /\ UNCHANGED <<pageVars, urlVars, limVars, vcall, keyVars, listVars, valVars, extraVars, recent, txnVars, raceVars,
                   wcur, wid, wtier, won, wtimer>>

\* The 100 ms timer of a local subscription fires: getQRCode, then the callback.
W_Timer(w) ==
    /\ w \in wtimer
    /\ wtimer' = wtimer \ {w}
    /\ LET r == GetQRCode(windowDatabase, remote, ls, wid[w], AllOK)
       IN  /\ ls' = r.ls
           /\ wcalls' = Called(wcalls, w, r.rec)
           /\ wshown' = Shown(wshown, r.rec)
    /\ UNCHANGED <<windowDatabase, firebaseInitialized, databaseAvailable, remote, now,
                   logVars, scanVars, urlVars, limVars, vcall, keyVars, listVars, valVars, extraVars, recent, txnVars,
                   raceVars, wcur, wid, wtier, won, winit>>

\* The records of the page's tier after createQRCode or incrementScanCount
WatchedStore(rem, l) == IF UseRemote(windowDatabase) THEN rem ELSE Stored(l)

\* Mutant: the listener is told of nothing but the first value (once
\* instead of on).
DeliveredOnce(calls, on, id, data) == calls

\* Every registered listener of the location is called with the new value.
Delivered(calls, on, id, data) ==
    [w \in Subs |-> IF w \in on /\ wid[w] = id /\ w \notin winit /\ data # NoRec
                    THEN calls[w] + 1 ELSE calls[w]]

\* A record is created on the page's tier.
W_Create(id) ==
    /\ WatchedStore(remote, ls)[id] = NoRec
    /\ LET r == CreateQRCode(windowDatabase, remote, ls, id, TxtMeet, now, AllOK)
       IN  /\ remote' = r.remote
           /\ ls' = r.ls
           /\ wcalls' = Delivered(wcalls, won, id, r.remote[id])
           /\ wshown' = IF Delivered(wcalls, won, id, r.remote[id]) # wcalls
                        THEN r.remote[id] ELSE wshown
    /\ UNCHANGED <<windowDatabase, firebaseInitialized, databaseAvailable, now,
                   logVars, scanVars, urlVars, limVars, vcall, keyVars, listVars, valVars, extraVars, recent, txnVars,
                   raceVars, wcur, wid, wtier, won, winit, wtimer>>

\* A scan updates the record on the page's tier.
W_Update(id) ==
    /\ WatchedStore(remote, ls)[id] # NoRec
    /\ WatchedStore(remote, ls)[id].scanCount < MaxScans
    /\ LET r == IncrementScanCount(windowDatabase, remote, ls, id, now, AllOK)
       IN  /\ remote' = r.remote
           /\ ls' = r.ls
           /\ wcalls' = Delivered(wcalls, won, id, r.remote[id])
           /\ wshown' = IF Delivered(wcalls, won, id, r.remote[id]) # wcalls
                        THEN r.remote[id] ELSE wshown
    /\ UNCHANGED <<windowDatabase, firebaseInitialized, databaseAvailable, now,
                   logVars, scanVars, urlVars, limVars, vcall, keyVars, listVars, valVars, extraVars, recent, txnVars,
                   raceVars, wcur, wid, wtier, won, winit, wtimer>>

\* The page calls getRecentQRCodes while its tier holds the records recs.
N_GetRecentQRCodes(recs, ok) ==
    /\ tierRecs = <<>>
    /\ tierRecs' = recs
    /\ recent' = RecentOf(windowDatabase, recs, ok)
    /\ lastOp' = Logged("recent", windowDatabase, FALSE)
    /\ UNCHANGED <<storeVars, sc, links, scanVars, urlVars, limVars, vcall, keyVars,
                   valVars, extraVars, txnVars, raceVars, watchVars>>

\* SecurityUtils.validateQRInput(text, name) is called.
I_ValidateQRInput(i) ==
    /\ vanswer = "none"
    /\ vinput' = i
    /\ vanswer' = ValidateQRInput(i)
    /\ UNCHANGED <<pageVars, urlVars, limVars, vcall, keyVars, listVars, extraVars, recent,
                   txnVars, raceVars, watchVars>>

\* SecurityUtils.validateImageFile(file) is called.
I_ValidateImageFile(file) ==
    /\ ianswer = "none"
    /\ ifile' = file
    /\ ianswer' = ValidateImageFile(file)
    /\ UNCHANGED <<coreVars, markupVars, idVars, genVars>>

\* QRRedirectManager.showTextContent(text)
D_ShowTextContent(text) ==
    /\ markup.by = "none"
    /\ placed' = text
    /\ markup' = [NoMarkup EXCEPT !.by = "showTextContent",
                                  !.contentText = SanitizeText(text),
                                  !.copyArg = ReplaceQuotes(EscapeHTML(text))]
    /\ UNCHANGED <<coreVars, imgVars, idVars, genVars>>

\* QRGenerator.loadRecentQRCodes, for a record whose name, text and id are str
D_LoadRecentQRCodes(str) ==
    /\ markup.by = "none"
    /\ placed' = str
    /\ markup' = [NoMarkup EXCEPT !.by = "loadRecentQRCodes",
                                  !.recentName = SanitizeText(str),
                                  !.recentText = TruncateText(str, 40),
                                  !.loadArg = EscapeHTML(str),
                                  !.dataQrId = EscapeHTML(str)]
    /\ UNCHANGED <<coreVars, imgVars, idVars, genVars>>

\* A millisecond passes.
U_Tick ==
    /\ uclock < MaxMillis
    /\ uclock' = uclock + 1
    /\ UNCHANGED <<coreVars, imgVars, markupVars, ustore, ureturned, genVars>>

\* Some page calls createQRCode(text, ...) on the tier; Math.random() gives random.
U_CreateQRCode(random, text) ==
    /\ Len(ureturned) < MaxCreates
    /\ LET newId == GenerateUniqueId(uclock, random)
       IN  /\ ustore' = Written(ustore, newId, text)
           /\ ureturned' = Append(ureturned, newId)
    /\ UNCHANGED <<coreVars, imgVars, markupVars, uclock, genVars>>

\* ------------------------------------------- generateQRCode, step by step
\* The generateQRCode calls of one page, in the order their events fire.
Calls == 1..MaxCalls

\* The form as it stands when the event fires: filled in, or with no text.
CallInputs == {ValidInput, [ValidInput EXCEPT !.text = TxtHello, !.textLen = 0, !.textTrim = 0]}

\* generateQRCode up to its first await: the rate limiter is asked, the
\* form is validated, the overlay is shown and the button disabled; the
\* call is then suspended in `await FirebaseManager.createQRCode(...)`.
StartGenerateQRCode(trigger, i) ==
    LET c == gstarted + 1
        can == CanMakeRequest(requests, now)
    IN  /\ gstarted < MaxCalls
        /\ gstarted' = c
        /\ gtrigger' = [gtrigger EXCEPT ![c] = trigger]
        /\ requests' = can.requests
        /\ admitted' = IF can.ok THEN Append(admitted, now) ELSE admitted
        /\ IF can.ok /\ ValidateQRInput(i) = "ok"
           THEN /\ gpc' = [gpc EXCEPT ![c] = "create"]
                /\ generateBtnDisabled' = TRUE
           ELSE /\ gpc' = [gpc EXCEPT ![c] = "rejected"]
                /\ UNCHANGED generateBtnDisabled
        /\ UNCHANGED <<currentQRId, pageVars, urlVars, lastCall, vcall, keyVars, recent,
                       txnVars, raceVars, watchVars, listVars, valVars,
                       imgVars, markupVars, idVars>>

\* The 'click' listener of generateBtn; a disabled button fires no click.
K_Click(i) ==
    /\ ~generateBtnDisabled
    /\ StartGenerateQRCode("click", i)

\* The key events the text area can see.
KeyEvents == [ctrlKey : BOOLEAN, key : {"Enter", "a"}]

\* The 'keydown' listener of the text area: Ctrl+Enter starts a call, any
\* other key does nothing.
K_KeyDown(e, i) ==
    /\ e.ctrlKey /\ e.key = "Enter"
    /\ StartGenerateQRCode("ctrlEnter", i)

\* createQRCode of call c settles.  Resolved: currentQRId is set to the id
\* it returned and the call goes on to `await this.createQRCanvas(...)`.
\* Rejected: the catch block alerts and the finally block re-enables the
\* button.
K_CreateSettles(c, threw) ==
    /\ gpc[c] = "create"
    /\ IF threw
       THEN /\ gpc' = [gpc EXCEPT ![c] = "failed"]
            /\ generateBtnDisabled' = FALSE
            /\ UNCHANGED currentQRId
       ELSE /\ gpc' = [gpc EXCEPT ![c] = "canvas"]
            /\ currentQRId' = c
            /\ UNCHANGED generateBtnDisabled
    /\ UNCHANGED <<coreVars, imgVars, markupVars, idVars, gstarted, gtrigger>>

\* createQRCanvas of call c settles: the code is shown, and the finally
\* block hides the overlay and re-enables the button.
K_CanvasSettles(c) ==
    /\ gpc[c] = "canvas"
    /\ gpc' = [gpc EXCEPT ![c] = "shown"]
    /\ generateBtnDisabled' = FALSE
    /\ UNCHANGED <<coreVars, imgVars, markupVars, idVars, gstarted, gtrigger, currentQRId>>

\* ------------------------------------------------------------ URL checks
AllowedDomains ==
    { <<"meet", "google", "com">>, <<"zoom", "us">>, <<"teams", "microsoft", "com">>,
      <<"webex", "com">>, <<"gotomeeting", "com">>, <<"youtube", "com">>,
      <<"www", "youtube", "com">>, <<"docs", "google", "com">>, <<"drive", "google", "com">> }

DangerousPatterns == {"javascript:", "data:", "vbscript:", "file:", "ftp:"}

\* new URL(string) does not throw
Parses(t) == t.scheme # ""

\* new URL('https://' + string) does not throw
PrefixParses(t) == t.clean /\ t.host # <<>>

\* string.toLowerCase(), on the substrings a text's marks stand for
ToLowerCase(m) ==
    CASE m = "JavaScript:" -> "javascript:"
      [] m = "DATA:" -> "data:"
      [] OTHER -> m

\* dangerousPatterns.some(pattern => lowerString.includes(pattern))
ContainsDangerous(t) ==
    \/ t.scheme \in DangerousPatterns
    \/ \E m \in t.marks : ToLowerCase(m) \in DangerousPatterns

\* string.includes('.com') || '.org' || '.net' || 'www.'
ContainsTldHint(t) ==
    \/ \E i \in 2..Len(t.host) : t.host[i] \in {"com", "org", "net"}
    \/ \E i \in 1..(Len(t.host) - 1) : t.host[i] = "www"

\* hostname.endsWith('.' + domain)
EndsWithDot(hostname, domain) ==
    /\ Len(hostname) > Len(domain)
    /\ SubSeq(hostname, Len(hostname) - Len(domain) + 1, Len(hostname)) = domain

\* hostname === domain || hostname.endsWith('.' + domain)
DomainMatches(hostname, domain) == hostname = domain \/ EndsWithDot(hostname, domain)

\* QRRedirectManager.isWhitelistedDomain
IsWhitelistedDomain(t) ==
    IF Parses(t)
    THEN \E domain \in AllowedDomains : DomainMatches(t.host, domain)
    ELSE FALSE

\* Mutant: only the parsed protocol is looked at.
IsValidURLProtocolOnly(t) ==
    IF Parses(t)
    THEN t.scheme \in {"http:", "https:"}
    ELSE ContainsTldHint(t) /\ PrefixParses(t)

\* QRRedirectManager.isValidURL
IsValidURL(t) ==
    IF Parses(t)
    THEN t.scheme \in {"http:", "https:"} /\ ~ContainsDangerous(t)
    ELSE ContainsTldHint(t) /\ PrefixParses(t)

\* The strings isValidURL is called with.  A string that new URL() parses
\* with an http(s) protocol has a host; one it does not parse has no
\* protocol, and its host is what follows once https:// is put in front.
UrlStrings ==
    { t \in [scheme : {"", "http:", "https:", "ftp:", "javascript:", "mailto:"},
             host : {<<>>, <<"example", "com">>, <<"www", "example", "de">>,
                     <<"EXAMPLE", "COM">>, <<"localhost">>},
             clean : BOOLEAN,
             marks : SUBSET {"javascript:", "JavaScript:", "DATA:", "ftp:"}] :
        /\ t.scheme \in {"http:", "https:"} => t.host # <<>> /\ t.clean
        /\ t.scheme \in {"ftp:", "javascript:", "mailto:"} => t.clean }

\* isValidURL(string) is called.
ClassifyURL(t) ==
    /\ urlString' = t
    /\ urlVerdict' = IF IsValidURL(t) THEN "navigable" ELSE "not_navigable"
    /\ UNCHANGED <<pageVars, limVars, opVars, vcall, keyVars>>

\* Mutant: the answer of confirm() is not looked at.
RedirectIgnoresAnswer(t, confirmed) ==
    IF IsValidURL(t)
    THEN IF IsWhitelistedDomain(t)
         THEN [pc |-> "NAVIGATED", asked |-> "no", nav |-> t]
         ELSE [pc |-> "NAVIGATED", asked |-> IF confirmed THEN "confirmed" ELSE "declined",
               nav |-> t]
    ELSE [pc |-> "CONTENT_DISPLAYED", asked |-> "no", nav |-> NoText]

\* QRRedirectManager.redirectToOriginal; confirmed is the answer confirm()
\* gives when it is shown.  [pc, asked, nav]
RedirectToOriginal(t, confirmed) ==
    IF IsValidURL(t)
    THEN IF IsWhitelistedDomain(t)
         THEN [pc |-> "NAVIGATED", asked |-> "no", nav |-> t]
         ELSE IF confirmed
              THEN [pc |-> "NAVIGATED", asked |-> "confirmed", nav |-> t]
              ELSE [pc |-> "CONTENT_DISPLAYED", asked |-> "declined", nav |-> NoText]
    ELSE [pc |-> "CONTENT_DISPLAYED", asked |-> "no", nav |-> NoText]

\* ------------------------------------------------------- redirect page
\* init, first source: FirebaseManager.getQRCode inside its own try/catch.
ResolveFirebase(db, rem, l, id, f) ==
    LET r == GetQRCode(db, rem, l, id, f)
    IN  [ls |-> r.ls, rec |-> IF r.threw THEN NoRec ELSE r.rec, asked |-> <<"firebase">>]

\* init, second source: CryptoManager.getItem; the unencrypted slot is read
\* in the catch of that attempt.
ResolveLocal(l, id, f) ==
    LET g == GetItem(l, f.decOK, f.encOK)
    IN  IF ~g.threw
        THEN [ls |-> g.ls, rec |-> OrEmpty(g)[id],
              source |-> "encrypted_storage", asked |-> <<"encrypted_storage">>]
        ELSE [ls |-> l, rec |-> IF l.plain.present THEN l.plain.data[id] ELSE NoRec,
              source |-> "unencrypted_storage",
              asked |-> <<"encrypted_storage", "unencrypted_storage">>]

\* Mutant: the rebuilt record counts the scan under way.
ResolvePayloadCounted(id, fb) ==
    IF fb.kind = "absent" THEN [rec |-> NoRec, asked |-> <<>>]
    ELSE IF fb.kind = "garbled" THEN [rec |-> NoRec, asked |-> <<"url_fallback">>]
    ELSE [rec |-> [id |-> id, name |-> fb.name, originalText |-> fb.text, logoPath |-> "",
                   scanCount |-> 1, createdAt |-> fb.created, lastScanned |-> 0],
          asked |-> <<"url_fallback">>]

\* init, last source: atob(decodeURIComponent(this.fallbackData)), JSON.parse
ResolvePayload(id, fb) ==
    IF fb.kind = "absent" THEN [rec |-> NoRec, asked |-> <<>>]
    ELSE IF fb.kind = "garbled" THEN [rec |-> NoRec, asked |-> <<"url_fallback">>]
    ELSE [rec |-> [id |-> id, name |-> fb.name, originalText |-> fb.text, logoPath |-> "",
                   scanCount |-> 0, createdAt |-> fb.created, lastScanned |-> 0],
          asked |-> <<"url_fallback">>]

\* Mutant: the guard in front of the next source is missing.
AfterSourceNoStop(rec, next) == next

\* `if (!qrData)` in front of the next source
AfterSource(rec, next) == IF rec # NoRec THEN "FOUND" ELSE next

R_Start(id, fb, db) ==
    /\ pc = "START"
    /\ id # "none" => links[id] # NoLink
    /\ fb \in LinksOf(id)
    /\ qrId' = id
    /\ fallbackData' = fb
    /\ rDatabase' = db
    /\ pc' = IF id = "none" THEN "ERROR_SHOWN" ELSE "RESOLVING_firebase"
    /\ UNCHANGED <<auxVars, storeVars, logVars, qrData, dataSource, consulted, incState, asked, navTarget>>

R_Firebase(f) ==
    /\ pc = "RESOLVING_firebase"
    /\ LET r == ResolveFirebase(rDatabase, remote, ls, qrId, f)
       IN  /\ ls' = r.ls
           /\ qrData' = r.rec
           /\ dataSource' = IF r.rec # NoRec THEN "firebase" ELSE dataSource
           /\ consulted' = consulted \o r.asked
           /\ pc' = AfterSource(r.rec, "RESOLVING_local")
    /\ UNCHANGED <<auxVars, windowDatabase, firebaseInitialized, databaseAvailable, remote, now,
                   logVars, rDatabase, qrId, fallbackData, incState, asked, navTarget>>

R_Local(f) ==
    /\ pc = "RESOLVING_local"
    /\ LET r == ResolveLocal(ls, qrId, f)
       IN  /\ ls' = r.ls
           /\ qrData' = r.rec
           /\ dataSource' = IF r.rec # NoRec THEN r.source ELSE dataSource
           /\ consulted' = consulted \o r.asked
           /\ pc' = AfterSource(r.rec, "RESOLVING_payload")
    /\ UNCHANGED <<auxVars, windowDatabase, firebaseInitialized, databaseAvailable, remote, now,
                   logVars, rDatabase, qrId, fallbackData, incState, asked, navTarget>>

R_Payload ==
    /\ pc = "RESOLVING_payload"
    /\ LET r == ResolvePayload(qrId, fallbackData)
       IN  /\ qrData' = r.rec
           /\ dataSource' = IF r.rec # NoRec THEN "url_fallback" ELSE dataSource
           /\ consulted' = consulted \o r.asked
           /\ pc' = AfterSource(r.rec, "NOT_FOUND")
    /\ UNCHANGED <<auxVars, storeVars, logVars, rDatabase, qrId, fallbackData, incState, asked, navTarget>>

\* Mutant: the return after showError is missing.
R_NotFoundFallsThrough ==
    /\ pc = "NOT_FOUND"
    /\ pc' = "FOUND"
    /\ UNCHANGED <<auxVars, storeVars, logVars, rDatabase, qrId, fallbackData, qrData, dataSource,
                   consulted, incState, asked, navTarget>>

\* showError
R_NotFound ==
    /\ pc = "NOT_FOUND"
    /\ pc' = "ERROR_SHOWN"
    /\ UNCHANGED <<auxVars, storeVars, logVars, rDatabase, qrId, fallbackData, qrData, dataSource,
                   consulted, incState, asked, navTarget>>

\* `await window.FirebaseManager.incrementScanCount(this.qrId)` is called
R_Found ==
    /\ pc = "FOUND"
    /\ incState' = "pending"
    /\ pc' = "INCREMENTING"
    /\ UNCHANGED <<auxVars, storeVars, logVars, rDatabase, qrId, fallbackData, qrData, dataSource,
                   consulted, asked, navTarget>>

\* Mutant: the call is not wrapped in its own try/catch, so a rejection
\* reaches the outer catch and showError.
IncrementSettlesUncaught(f) ==
    /\ pc = "INCREMENTING"
    /\ LET r == IncrementScanCount(rDatabase, remote, ls, qrId, now, f)
       IN  /\ remote' = r.remote
           /\ ls' = r.ls
           /\ incState' = IF r.threw THEN "failed" ELSE "done"
           /\ sc' = ScAfterIncrement(sc, qrId, r.threw)
           /\ pc' = IF r.threw THEN "ERROR_SHOWN" ELSE "SCAN_RECORDED"
    /\ now' = IF now < MaxTime THEN now + 1 ELSE now
    /\ UNCHANGED <<auxVars, windowDatabase, firebaseInitialized, databaseAvailable, lastOp, links,
                   rDatabase, qrId, fallbackData, qrData, dataSource, consulted, asked, navTarget>>

\* The awaited call settles; a rejection is caught and logged.
IncrementSettles(f) ==
    /\ pc = "INCREMENTING"
    /\ LET r == IncrementScanCount(rDatabase, remote, ls, qrId, now, f)
       IN  /\ remote' = r.remote
           /\ ls' = r.ls
           /\ incState' = IF r.threw THEN "failed" ELSE "done"
           /\ sc' = ScAfterIncrement(sc, qrId, r.threw)
    /\ now' = IF now < MaxTime THEN now + 1 ELSE now
    /\ pc' = "SCAN_RECORDED"
    /\ UNCHANGED <<auxVars, windowDatabase, firebaseInitialized, databaseAvailable, lastOp, links,
                   rDatabase, qrId, fallbackData, qrData, dataSource, consulted, asked, navTarget>>

\* the local read-modify-write: crypto and localStorage calls always settle
R_IncLocal(f) == ~UseRemote(rDatabase) /\ IncrementSettles(f)

\* the remote transaction: settles when the server answers
R_IncRemote(f) == UseRemote(rDatabase) /\ IncrementSettles(f)

\* the 1500 ms timer fires and calls redirectToOriginal
R_Timer ==
    /\ pc = "SCAN_RECORDED"
    /\ pc' = "DISPATCHING"
    /\ UNCHANGED <<auxVars, storeVars, logVars, rDatabase, qrId, fallbackData, qrData, dataSource,
                   consulted, incState, asked, navTarget>>

R_Redirect(confirmed) ==
    /\ pc = "DISPATCHING"
    /\ LET d == RedirectToOriginal(qrData.originalText, confirmed)
       IN  /\ pc' = d.pc
           /\ asked' = d.asked
           /\ navTarget' = d.nav
    /\ UNCHANGED <<auxVars, storeVars, logVars, rDatabase, qrId, fallbackData, qrData, dataSource,
                   consulted, incState>>

Init ==
    /\ windowDatabase \in BOOLEAN
    /\ firebaseInitialized = windowDatabase
    /\ databaseAvailable = windowDatabase
    /\ remote = EmptyMap
    /\ ls = [key |-> 0, enc |-> NoEnc, plain |-> NoPlain]
    /\ now = 1
    /\ lastOp = NoOp
    /\ sc = NoSc
    /\ links = [i \in Ids |-> NoLink]
    /\ pc = "START"
    /\ rDatabase = FALSE
    /\ qrId = "none"
    /\ fallbackData = NoPayload
    /\ qrData = NoRec
    /\ dataSource = "none"
    /\ consulted = <<>>
    /\ incState = "none"
    /\ asked = "no"
    /\ navTarget = NoText
    /\ urlString = NoText
    /\ urlVerdict = "none"
    /\ requests = <<>>
    /\ admitted = <<>>
    /\ lastCall = NoCall
    /\ vcall = NoVaultCall
    /\ kpc = [p \in Ops |-> "idle"]
    /\ kkey = [p \in Ops |-> 0]
    /\ kval = [p \in Ops |-> EmptyMap]
    /\ recent = <<>>
    /\ tpc = [c \in Clients |-> "idle"]
    /\ tval = [c \in Clients |-> NoRec]
    /\ ppc = [p \in Pages |-> "idle"]
    /\ pmap = [p \in Pages |-> EmptyMap]
    /\ pid = [p \in Pages |-> "none"]
    /\ made = {}
    /\ wcur = 0
    /\ wid = [w \in Subs |-> "none"]
    /\ wtier = [w \in Subs |-> "none"]
    /\ won = {}
    /\ winit = {}
    /\ wtimer = {}
    /\ wcalls = [w \in Subs |-> 0]
    /\ wshown = NoRec
    /\ tierRecs = <<>>
    /\ vinput = ValidInput
    /\ vanswer = "none"
    /\ ifile = NoFile
    /\ ianswer = "none"
    /\ placed = NoString
    /\ markup = NoMarkup
    /\ uclock = 1
    /\ ustore = {}
    /\ ureturned = <<>>
    /\ gstarted = 0
    /\ gtrigger = [c \in Calls |-> "none"]
    /\ gpc = [c \in Calls |-> "idle"]
    /\ generateBtnDisabled = FALSE
    /\ currentQRId = 0

\* The generator page alone.
Next ==
    \/ ConnectivityChange
    \/ \E id \in Ids, text \in Texts, f \in FaultsOn(windowDatabase) : Create(id, text, f)
    \/ \E id \in Ids, f \in FaultsOn(windowDatabase) : Get(id, f)
    \/ \E id \in Ids, f \in FaultsOn(windowDatabase) : IncrementScan(id, f)
    \/ \E f \in FaultsOn(windowDatabase) : Recent(f)

Spec == Init /\ [][Next]_vars

\* Records are generated, then a link is scanned.
Generate ==
    /\ pc = "START"
    /\ \E id \in Ids, text \in Texts, f \in FaultsOn(windowDatabase) : Create(id, text, f)

Payloads == {NoPayload, GarbledPayload} \cup {OkPayload(text, t) : text \in Texts, t \in 1..MaxTime}

Resolve ==
    \/ \E id \in Ids \cup {"none"}, fb \in Payloads, db \in BOOLEAN : R_Start(id, fb, db)
    \/ \E f \in FaultsOn(rDatabase) : R_Firebase(f)
    \/ \E f \in FaultsOn(FALSE) : R_Local(f)
    \/ R_Payload
    \/ R_NotFound
    \/ R_Found
    \/ \E f \in FaultsOn(rDatabase) : R_IncLocal(f)
    \/ \E f \in FaultsOn(rDatabase) : R_IncRemote(f)
    \/ R_Timer
    \/ \E confirmed \in BOOLEAN : R_Redirect(confirmed)

NextScan == Generate \/ Resolve

ScanSpec == Init /\ [][NextScan]_vars

\* The page's own steps are run by the browser's task queue: each one that
\* is pending is eventually taken.  Store reads are taken to return; nothing
\* makes the server answer the transaction of incrementScanCount.
FairScanSpec ==
    /\ ScanSpec
    /\ WF_vars(\E f \in FaultsOn(rDatabase) : R_Firebase(f))
    /\ WF_vars(\E f \in FaultsOn(FALSE) : R_Local(f))
    /\ WF_vars(R_Payload)
    /\ WF_vars(R_NotFound)
    /\ WF_vars(R_Found)
    /\ WF_vars(\E f \in FaultsOn(rDatabase) : R_IncLocal(f))
    /\ WF_vars(R_Timer)
    /\ WF_vars(\E confirmed \in BOOLEAN : R_Redirect(confirmed))

\* isValidURL on its own, over the strings of UrlStrings.
NextUrl == \E t \in UrlStrings : ClassifyURL(t)

UrlSpec == Init /\ [][NextUrl]_vars

\* The rate limiter on its own, under a clock that never runs backwards.
NextLimiter ==
    \/ \E d \in ClockSteps : Tick(d)
    \/ L_CanMakeRequest
    \/ L_GetRemainingRequests

LimiterSpec == Init /\ [][NextLimiter]_vars

\* The generate button of the generator page, pressed again and again
\* within one rate-limit window.
NextGenerate ==
    \/ ConnectivityChange
    \/ \E i \in FormInputs, id \in Ids, f \in FaultsOn(windowDatabase) : G_GenerateQRCode(i, id, f)

GenerateSpec == Init /\ [][NextGenerate]_vars

\* The vault on its own: a page that calls setItem and getItem.
NextVault ==
    \/ \E v \in VaultValues, encOK \in BOOLEAN : V_SetItem(v, encOK)
    \/ \E decOK \in BOOLEAN, encOK \in BOOLEAN : V_GetItem(decOK, encOK)

VaultSpec == Init /\ [][NextVault]_vars

\* Vault writes whose awaits interleave.
NextKey ==
    \/ \E p \in Ops, v \in VaultValues : K_ReadKey(p, v)
    \/ \E p \in Ops : K_StoreKey(p)
    \/ \E p \in Ops : K_WriteSlot(p)

KeySpec == Init /\ [][NextKey]_vars

\* Several devices scan one code that is stored on the remote tier.
NextTxn ==
    \/ T_Seed
    \/ \E c \in Clients, cached \in BOOLEAN : T_Start(c, cached)
    \/ \E c \in Clients : T_Commit(c)

TxnSpec == Init /\ [][NextTxn]_vars

\* Several pages without the SDK work on the shared local store.
NextRace ==
    \/ \E p \in Pages, id \in Ids, decOK \in BOOLEAN : P_CreateRead(p, id, decOK)
    \/ \E p \in Pages, id \in Ids, decOK \in BOOLEAN : P_ScanRead(p, id, decOK)
    \/ \E p \in Pages : P_Write(p)

RaceSpec == Init /\ [][NextRace]_vars

\* The generator page's scan-count listener while records are created and scanned.
NextWatch ==
    \/ \E id \in Ids : W_Start(id)
    \/ \E w \in Subs : W_Initial(w)
    \/ \E w \in Subs : W_Timer(w)
    \/ \E id \in Ids : W_Create(id)
    \/ \E id \in Ids : W_Update(id)

WatchSpec == Init /\ [][NextWatch]_vars

\* The listing of the ten most recent records of a tier.
NextList == \E recs \in TierContents, ok \in BOOLEAN : N_GetRecentQRCodes(recs, ok)

ListSpec == Init /\ [][NextList]_vars

\* The validator on its own.
NextValidator == \E i \in ValidatorInputs : I_ValidateQRInput(i)

ValidatorSpec == Init /\ [][NextValidator]_vars

\* The image validator on its own.
NextImage == \E file \in Files : I_ValidateImageFile(file)

ImageSpec == Init /\ [][NextImage]_vars

\* The pages' rendering of stored strings.
NextRender ==
    \/ \E text \in Strings : D_ShowTextContent(text)
    \/ \E str \in Strings : D_LoadRecentQRCodes(str)

RenderSpec == Init /\ [][NextRender]_vars

\* The ids of the records created on one tier.
NextId ==
    \/ U_Tick
    \/ \E random \in Randoms, text \in {"one", "two", "three"} : U_CreateQRCode(random, text)

IdSpec == Init /\ [][NextId]_vars

\* The generator page's events and the settling of what its calls await.
NextTrigger ==
    \/ \E i \in CallInputs : K_Click(i)
    \/ \E e \in KeyEvents, i \in CallInputs : K_KeyDown(e, i)
    \/ \E c \in Calls, threw \in BOOLEAN : K_CreateSettles(c, threw)
    \/ \E c \in Calls : K_CanvasSettles(c)

TriggerSpec == Init /\ [][NextTrigger]_vars

\* =========================================================== properties

\* What getQRCode(id) returns on the generator page when its own tier
\* operation and its decryption succeed.
GetNow(id) == GetQRCode(windowDatabase, remote, ls, id, AllOK).rec

\* C1: with nothing written since but scans of the record itself, after
\* create(text, name, logo) returned id, get(id) returns a record with
\* scanCount = 0 and originalText = text; after exactly one incrementScan(id)
\* it returns scanCount = 1 and a non-null lastScanned.
C1_CreateGetScanGet ==
    (sc # NoSc /\ sc.incs <= 1) =>
        /\ GetNow(sc.id) # NoRec
        /\ GetNow(sc.id).originalText = sc.text
        /\ GetNow(sc.id).scanCount = sc.incs
        /\ sc.incs = 1 => GetNow(sc.id).lastScanned # 0

\* C2: every store operation uses the remote tier exactly when the
\* connectivity signal reports connected at the time of the call.
C2_TierFollowsSignal ==
    lastOp.op # "none" => (lastOp.tier = "remote" <=> lastOp.avail)

Rank(source) ==
    CASE source = "firebase"            -> 1
      [] source = "encrypted_storage"   -> 2
      [] source = "unencrypted_storage" -> 3
      [] source = "url_fallback"        -> 4

Resolved == pc \in {"FOUND", "INCREMENTING", "SCAN_RECORDED", "DISPATCHING",
                    "NAVIGATED", "CONTENT_DISPLAYED"}

LegacyHolds(id) == ls.plain.present /\ ls.plain.data[id] # NoRec

\* C3: within one resolution the sources are asked one at a time in the
\* order remote, encrypted local, legacy, payload; the first source that
\* returns the record ends the search, and the record kept is that source's.
\* With a remote miss, an encrypted-tier hit and a legacy entry, the record
\* is the encrypted tier's and neither the legacy slot nor the payload is asked.
C3_OrderedFirstHitWins ==
    /\ \A i, j \in 1..Len(consulted) : i < j => Rank(consulted[i]) < Rank(consulted[j])
    /\ dataSource # "none" =>
          /\ qrData # NoRec
          /\ consulted # <<>>
          /\ consulted[Len(consulted)] = dataSource
    /\ dataSource = "none" => qrData = NoRec
    /\ (pc = "FOUND" /\ dataSource = "encrypted_storage" /\ ls.plain.present) =>
          /\ ls.enc.present
          /\ qrData = ls.enc.data[qrId]
          /\ consulted = <<"firebase", "encrypted_storage">>

C3_Witness ==
    /\ pc = "FOUND"
    /\ rDatabase
    /\ consulted = <<"firebase", "encrypted_storage">>
    /\ LegacyHolds(qrId)
    /\ ls.plain.data[qrId] # qrData

\* C4: whenever the remote tier and the encrypted local tier each missed or
\* failed, the legacy unencrypted slot is asked, and a record it holds for
\* the id is resolved: the search never passes the storage sources without
\* a record while the legacy slot holds one.
C4_LegacyConsulted ==
    pc \in {"RESOLVING_payload", "NOT_FOUND", "ERROR_SHOWN"} /\ qrId # "none" =>
        ~LegacyHolds(qrId)

C6_Inv ==
    /\ pc \in {"NOT_FOUND", "ERROR_SHOWN"} =>
          /\ qrData = NoRec
          /\ dataSource = "none"
          /\ incState = "none"
          /\ asked = "no"
          /\ navTarget = NoText
    /\ pc = "NOT_FOUND" =>
          /\ Len(consulted) >= 2
          /\ consulted[1] = "firebase"
          /\ consulted[2] = "encrypted_storage"
          /\ ResolvePayload(qrId, fallbackData).rec = NoRec
    /\ Resolved => qrData # NoRec

C6_Step ==
    /\ pc = "NOT_FOUND" => pc' = "ERROR_SHOWN"
    /\ pc = "ERROR_SHOWN" => pc' = "ERROR_SHOWN"

\* C6: when every source missed (the payload absent or undecodable), the
\* resolution is NOT_FOUND and ends in ERROR_SHOWN, where it stays: no
\* incrementScan was attempted, nothing is navigated to, no content is shown.
C6_AllMissIsError == [] C6_Inv /\ [][C6_Step]_vars

C6_Witness ==
    /\ pc = "ERROR_SHOWN"
    /\ consulted = <<"firebase", "encrypted_storage", "url_fallback">>

Dispatched == pc \in {"NAVIGATED", "CONTENT_DISPLAYED"}

C8_IncrementNeverBlocks == (pc = "FOUND") ~> (pc = "DISPATCHING")

\* The hostname of the destination equals an allow-listed domain or is a
\* sub-domain of one.
HostAllowListed(t) == \E domain \in AllowedDomains : DomainMatches(t.host, domain)

\* C9: the resolver navigates only to content classified navigable whose
\* hostname is allow-listed or which the user confirmed; content that is not
\* navigable, or whose confirmation was declined, is not navigated to and
\* ends in CONTENT_DISPLAYED.
C9_NavigateOnlyAllowedOrConfirmed ==
    /\ pc = "NAVIGATED" <=> navTarget # NoText
    /\ pc = "NAVIGATED" =>
          /\ navTarget = qrData.originalText
          /\ IsValidURL(qrData.originalText)
          /\ HostAllowListed(qrData.originalText) \/ asked = "confirmed"
    /\ (Dispatched /\ (~IsValidURL(qrData.originalText) \/ asked = "declined")) =>
          pc = "CONTENT_DISPLAYED"

C9_Witness == pc = "CONTENT_DISPLAYED" /\ asked = "declined"

\* C10: navigable content whose destination hostname is allow-listed,
\* content navigable through the https:// prefix retry included, is
\* navigated to without a confirmation; any other navigable content is asked
\* about first.
C10_AllowListedNeverAsked ==
    (Dispatched /\ IsValidURL(qrData.originalText)) =>
        (asked = "no" <=> HostAllowListed(qrData.originalText))


\* The blocked-scheme substrings the raw string holds, letter case aside.
BlockedIn(t) ==
    {p \in DangerousPatterns : p = t.scheme \/ \E m \in t.marks : ToLowerCase(m) = p}

\* C11: a string is classified navigable exactly when it parses with an
\* http or https scheme and holds none of the blocked-scheme substrings in
\* any letter case, or it does not parse, holds a TLD/www. substring and
\* parses once https:// is put in front of it.
C11_NavigableIffReferenceRule ==
    urlVerdict # "none" =>
        ( urlVerdict = "navigable" <=>
            \/ /\ Parses(urlString)
               /\ urlString.scheme \in {"http:", "https:"}
               /\ BlockedIn(urlString) = {}
            \/ /\ ~Parses(urlString)
               /\ ContainsTldHint(urlString)
               /\ PrefixParses(urlString) )

\* An https URL that holds a blocked substring in mixed case was refused.
C11_Witness ==
    /\ urlVerdict = "not_navigable"
    /\ urlString.scheme = "https:"
    /\ urlString.marks = {"JavaScript:"}


\* The calls admitted in the window that ends at time t.
AdmittedWithin(t) == Len(SelectSeq(admitted, LAMBDA time : time <= t /\ t - time < TimeWindow))

\* A step that is a canMakeRequest call.
IsCanMakeRequest == now' = now /\ lastCall'.op = "canMakeRequest"

\* C12: under a clock that never runs backwards a canMakeRequest call is
\* admitted exactly when fewer than 10 calls were admitted in the 60 seconds
\* before it, and no 60-second window ever holds more than 10 admissions.
C12_AdmittedIffUnderLimit ==
    /\ [][IsCanMakeRequest => (lastCall'.ok <=> AdmittedWithin(now) < MaxRequests)]_vars
    /\ [](\A i \in 1..Len(admitted) : AdmittedWithin(admitted[i]) <= MaxRequests)

\* The eleventh call of a window was refused, and after the window had
\* passed calls were admitted again.
C12_Witness ==
    /\ lastCall.op = "canMakeRequest" /\ ~lastCall.ok
    /\ Len(admitted) = 2 * MaxRequests
    /\ admitted[MaxRequests] = 1


\* A step that is a getRemainingRequests call.
IsGetRemainingRequests == now' = now /\ lastCall'.op = "getRemainingRequests"

\* C13: getRemainingRequests leaves the limiter as it was and returns 10
\* less the number of calls admitted in the current window, never less than
\* 0; a refused canMakeRequest call records no timestamp.
C13_RemainingIsPureRead ==
    /\ [][IsGetRemainingRequests =>
            /\ requests' = requests
            /\ lastCall'.n = MaxRequests - AdmittedWithin(now)
            /\ lastCall'.n >= 0]_vars
    /\ [][(IsCanMakeRequest /\ ~lastCall'.ok) => requests' = requests]_vars

\* The stored list still holds ten timestamps that have left the window
\* when getRemainingRequests answers 10.
C13_Witness ==
    /\ lastCall.op = "getRemainingRequests"
    /\ lastCall.n = MaxRequests
    /\ Len(requests) = MaxRequests


\* A step that is a generateQRCode call.
IsGenerateQRCode == now' = now /\ lastCall'.op = "generateQRCode"

ValidationErrors ==
    {"text_missing", "text_too_long", "name_missing", "name_too_long", "invalid_text", "invalid_name"}

\* C14: on the creation path the validator runs before the rate limiter
\* and the store write comes last: an attempt the validator rejects consumes
\* no rate-limit capacity, and the store is written only after validation
\* and admission both succeeded.
C14_ValidatorBeforeLimiter ==
    /\ [][(IsGenerateQRCode /\ lastCall'.outcome \in ValidationErrors) =>
            (requests' = requests /\ admitted' = admitted)]_vars
    /\ [][(IsGenerateQRCode /\ <<remote, ls>>' # <<remote, ls>>) =>
            (lastCall'.outcome = "created" /\ lastCall'.ok)]_vars


\* C15: setItem(k, v) followed by getItem(k) returns v, from any state of
\* the local store, also when an encrypted slot for k exists already or
\* setItem took its plaintext fallback (the read's own decryption working).
C15_VaultRoundTrip ==
    [][(vcall.op = "setItem" /\ vcall'.op = "getItem" /\ vcall'.decOK) =>
          (vcall'.some /\ vcall'.data = vcall.data)]_vars

\* C16: from a legacy plaintext slot and no encrypted slot, the first
\* getItem returns the legacy value and leaves one encrypted slot and no
\* legacy slot; a second getItem returns the same value and changes no
\* stored data.
C16_MigrationIdempotent ==
    /\ [][(vcall'.op = "getItem" /\ ~ls.enc.present /\ ls.plain.present) =>
            /\ vcall'.some /\ vcall'.data = ls.plain.data
            /\ ls'.enc.present /\ ~ls'.plain.present]_vars
    /\ [][(vcall.op = "getItem" /\ vcall.migrated /\ vcall'.op = "getItem") =>
            /\ vcall'.some /\ vcall'.data = vcall.data
            /\ ls' = ls]_vars

\* C17: when key retrieval or encryption fails inside setItem(k, v), the
\* call does not raise and the plaintext of v is stored in the slot k.
C17_SetItemFallsBackToPlaintext ==
    [][(vcall'.op = "setItem" /\ ~vcall'.encOK) =>
          /\ ~vcall'.threw
          /\ ls'.plain.present /\ ls'.plain.data = vcall'.data
          /\ ls'.enc = ls.enc]_vars

\* A failed encryption left the value in the unprefixed slot, next to an
\* older encrypted slot.
C17_Witness ==
    /\ vcall.op = "setItem" /\ ~vcall.encOK /\ ~vcall.threw
    /\ ls.plain.present /\ ls.plain.data = vcall.data
    /\ ls.enc.present /\ ls.enc.data # vcall.data


\* C18: one crypto key per profile: once the key slot holds a key no vault
\* operation overwrites it, whatever the interleaving of concurrent vault
\* operations, so every value encrypted earlier stays decryptable.
C18_KeyNeverOverwritten ==
    /\ [][ls.key # 0 => ls'.key = ls.key]_vars
    /\ [](ls.enc.present => ls.enc.key = ls.key)


\* A step in which createQRCode returned an id.
IsSuccessfulCreate == now' # now /\ lastOp'.op = "create" /\ ~lastOp'.threw

\* What the local tier holds under id, whichever slot it is in.
LocalCopy(l, id) ==
    IF l.enc.present /\ l.enc.data[id] # NoRec THEN l.enc.data[id]
    ELSE IF l.plain.present THEN l.plain.data[id]
    ELSE NoRec

\* C19: a successful create writes the new record to exactly one tier, the
\* one active at call time (the remote tier while the connectivity signal
\* reports connected, the local tier otherwise); the other tier is left
\* unchanged and holds no copy of the record.
C19_CreateWritesActiveTierOnly ==
    [][IsSuccessfulCreate =>
          IF IsAvailable
          THEN /\ remote'[sc'.id] # NoRec
               /\ ls' = ls /\ LocalCopy(ls', sc'.id) = NoRec
          ELSE /\ LocalCopy(ls', sc'.id) # NoRec
               /\ remote' = remote /\ remote'[sc'.id] = NoRec]_vars

\* The write createQRCode issues fails: the remote set() is rejected, or
\* the encrypted write of the local tier fails.
WriteFails(f) == IF UseRemote(windowDatabase) THEN ~f.remoteOK ELSE ~f.encOK

\* C20: when the write to the active tier fails during create, create fails
\* with an error, returns no id, and the record is not written to another
\* tier instead.
C20_FailedWriteFailsCreate ==
    [][\A id \in Ids, text \in Texts, f \in Faults :
          (Create(id, text, f) /\ WriteFails(f)) =>
              /\ lastOp'.threw
              /\ sc' = sc /\ links' = links
              /\ remote' = remote
              /\ ls'.plain = ls.plain]_vars


\* The tier operation a call issues fails: the remote request is rejected,
\* or the local slot cannot be decrypted.
ReadFails(f) ==
    IF UseRemote(windowDatabase) THEN ~f.remoteOK ELSE ls.enc.present /\ ~f.decOK

\* C21: a failure of the underlying tier operation in get, incrementScan
\* or list_recent reaches the caller as an error; none of them turns it
\* into a normal result such as an absent record or an empty list.
C21_TierFailurePropagates ==
    [][\A id \in Ids, f \in Faults :
          ((Get(id, f) \/ IncrementScan(id, f) \/ Recent(f)) /\ ReadFails(f)) =>
              lastOp'.threw]_vars


\* The clients whose incrementScanCount has completed.
Completed == {c \in Clients : tpc[c] = "done"}

\* C22: on the remote tier concurrent scans serialize: whatever the
\* interleaving of the clients' incrementScan calls on an existing record,
\* each completed call has raised scanCount by one, so that once all N have
\* completed it has grown by exactly N.
C22_RemoteScansSerialize ==
    remote[ScannedId] # NoRec => remote[ScannedId].scanCount = Cardinality(Completed)

\* All clients have completed, one of them after a retry.
C22_Witness ==
    /\ Completed = Clients
    /\ remote[ScannedId].scanCount = NumClients


\* C23: the stored scanCount of a record is non-negative, starts at zero and
\* never decreases, whatever the interleaving of create and incrementScan,
\* overlapping read-modify-write cycles of several pages on the shared
\* local store included.
C23_ScanCountMonotonic ==
    [][\A id \in Ids :
          /\ Stored(ls')[id] # NoRec => Stored(ls')[id].scanCount >= 0
          /\ (id \notin made /\ Stored(ls)[id] = NoRec /\ Stored(ls')[id] # NoRec) =>
                 Stored(ls')[id].scanCount = 0
          /\ (Stored(ls)[id] # NoRec /\ Stored(ls')[id] # NoRec) =>
                 Stored(ls')[id].scanCount >= Stored(ls)[id].scanCount]_vars

\* C24: a record is readable from the moment create has returned its id and
\* is retained: no later create or incrementScan, interleaved or after a
\* failed decryption of the slot, removes it.
C24_CreatedRecordRetained ==
    \A id \in made : Stored(ls)[id] # NoRec


\* The records of the tier the page's operations work on.
ActiveStore(rem, l) == IF UseRemote(windowDatabase) THEN rem ELSE Stored(l)

\* Everything of a record but its scan bookkeeping.
Identity(rec) == [rec EXCEPT !.scanCount = 0, !.lastScanned = 0]

\* C25: incrementScan(id) changes only scanCount and lastScanned of the
\* record id: its id, name, originalText, logoPath and createdAt, and every
\* other record of the store, are left as they were.
C25_IncrementFrame ==
    [][\A id \in Ids, f \in Faults :
          IncrementScan(id, f) =>
              /\ Identity(ActiveStore(remote', ls')[id]) = Identity(ActiveStore(remote, ls)[id])
              /\ \A other \in Ids \ {id} :
                     ActiveStore(remote', ls')[other] = ActiveStore(remote, ls)[other]]_vars


\* A step that changes the stored record id of the page's tier.
Updates(id) ==
    /\ WatchedStore(remote', ls')[id] # WatchedStore(remote, ls)[id]
    /\ WatchedStore(remote', ls')[id] # NoRec

\* C26: on the remote tier every update of the record made while the
\* listener is registered calls onChange with the updated record (at once,
\* or through the listener's first event if that is still due); on the
\* local tier a subscription's onChange is called at most once, by the
\* timer and not by the subscribing call, and by no later update.
C26_WatchDelivery ==
    [][\A w \in Subs :
          /\ (w \in won /\ Updates(wid[w])) =>
                 IF w \in winit
                 THEN w \in winit' /\ wcalls'[w] = wcalls[w]
                 ELSE wcalls'[w] = wcalls[w] + 1 /\ wshown' = remote'[wid[w]]
          /\ wtier'[w] = "local" =>
                 /\ wcalls'[w] <= 1
                 /\ wcalls'[w] # wcalls[w] => (w \in wtimer /\ w \notin wtimer')]_vars

\* A remote listener has been called for its first value and for two scans.
C26_Witness ==
    \E w \in Subs :
        /\ w \in won /\ w \notin winit
        /\ wcalls[w] = 3
        /\ wshown = remote[wid[w]]
        /\ wshown.scanCount = 2

\* A local subscription's callback has been called by the timer, and the
\* record has been scanned since without another call.
C26_LocalWitness ==
    \E w \in Subs :
        /\ wtier[w] = "local" /\ w \notin wtimer
        /\ wcalls[w] = 1
        /\ wshown.scanCount = 0
        /\ Stored(ls)[wid[w]].scanCount = 2


InList(rec, list) == \E i \in 1..Len(list) : list[i] = rec

\* The list holds min(10, n) different records of the tier, newest first,
\* and no record left out is newer than one in the list.
TenMostRecent(list, recs) ==
    /\ Len(list) = IF Len(recs) > 10 THEN 10 ELSE Len(recs)
    /\ \A i \in 1..Len(list) : InList(list[i], recs)
    /\ \A i, j \in 1..Len(list) : i < j => list[i] # list[j] /\ list[i].createdAt >= list[j].createdAt
    /\ \A k \in 1..Len(recs) : ~InList(recs[k], list) =>
            \A i \in 1..Len(list) : recs[k].createdAt <= list[i].createdAt

\* C27: list_recent returns at most ten records of the active tier, newest
\* first by createdAt: the ten most recently created ones.
C27_RecentAreTenNewest ==
    lastOp.op = "recent" => TenMostRecent(recent, tierRecs)


\* C28: a generated link carries the data payload exactly when the remote
\* tier was unavailable at creation, that is exactly when the record was
\* written to the local tier.
C28_PayloadIffLocalRecord ==
    [][\A i \in FormInputs, id \in Ids, f \in Faults :
          (G_GenerateQRCode(i, id, f) /\ lastCall'.outcome = "created") =>
              /\ (links'[id].kind = "ok") <=> (lastOp'.tier = "local")
              /\ (links'[id].kind = "ok") <=> (LocalCopy(ls', id) # NoRec)]_vars


\* The fragments that are a script tag, javascript:, or an iframe, object
\* or embed tag, in whatever letter case.
InjectionFragments ==
    { "<script>", "<SCRIPT>", "<ScRiPt src=x>", "javascript:", "JavaScript:",
      "<iframe>", "<IFRAME>", "<Object>", "<EMBED>" }

\* The fragments that match a blacklisted pattern.
BlacklistedFragments == InjectionFragments \cup {"data:text/html", "VBScript:"}

NoBlacklisted(i) == (i.textMarks \cup i.nameMarks) \cap BlacklistedFragments = {}

\* C29, as stated: every pair with a non-empty text of at most 4000
\* characters, a non-empty name of at most 100 characters and no
\* blacklisted pattern in either field is accepted.
C29_AcceptsNonEmpty ==
    (/\ vanswer # "none"
     /\ vinput.textLen \in 1..4000
     /\ vinput.nameLen \in 1..100
     /\ NoBlacklisted(vinput)) => vanswer = "ok"

\* C29, amended: every pair with a text that is non-empty after trimming
\* and has at most 4000 characters, a name that is non-empty after trimming
\* and has at most 100 characters, and no blacklisted pattern in either
\* field is accepted.
C29_AcceptsNonBlank ==
    (/\ vanswer # "none"
     /\ vinput.textTrim >= 1 /\ vinput.textLen <= 4000
     /\ vinput.nameTrim >= 1 /\ vinput.nameLen <= 100
     /\ NoBlacklisted(vinput)) => vanswer = "ok"

\* A text of 4000 and a name of 100 characters have been accepted.
C29_Witness ==
    /\ vanswer = "ok"
    /\ vinput.textLen = 4000
    /\ vinput.nameLen = 100

\* C30: an input whose text or name contains a script tag, javascript: or
\* an iframe, object or embed tag, in any letter case, is rejected with the
\* invalid-content error, whatever the other field is (empty, oversize).
C30_InjectionIsSecurityRejection ==
    (/\ vanswer # "none"
     /\ (vinput.textMarks \cup vinput.nameMarks) \cap InjectionFragments # {}) =>
        vanswer \in {"invalid_text", "invalid_name"}


\* The files of the model by what the claim asks of them: a declared type
\* of the allow-list, the first bytes of a JPEG, PNG, GIF or WebP file, a
\* name with an executable-style extension.
DeclaredImage(file) == file.type \in {"image/jpeg", "image/png", "IMAGE/PNG", "image/webp"}

ImageBytes(file) ==
    file.head \in { <<255, 216, 255, 224>>, <<137, 80, 78, 71, 13, 10, 26, 10, 0, 0, 0, 13, 73>>,
                    <<71, 73, 70, 56, 57, 97>>, <<82, 73, 70, 70, 0, 0, 0, 0, 87, 69, 66, 80>> }

ExecutableName(file) ==
    file.name \in { <<"logo", "exe">>, <<"logo", "EXE", "png">>, <<"logo", "php", "png">>,
                    <<"my", "company", "png">>, <<"data", "json">> }

\* C31: validateImage accepts a file iff its declared type is in the
\* allow-list, its size is at most 2MB, its first bytes are the signature
\* of an accepted format and its name contains no executable-style
\* extension; a name with such an extension is rejected whatever the type
\* and the signature.
C31_ImageAcceptedIff ==
    ianswer # "none" =>
        /\ (ianswer = "ok") <=>
               (/\ DeclaredImage(ifile)
                /\ ifile.size <= 2 * 1024 * 1024
                /\ ImageBytes(ifile)
                /\ ~ExecutableName(ifile))
        /\ ExecutableName(ifile) => ianswer # "ok"

\* A 2MB PNG with an executable extension in its name has been rejected
\* for its name.
C31_Witness ==
    /\ ianswer = "suspicious_name"
    /\ ifile.size = MaxSize
    /\ DeclaredImage(ifile) /\ ImageBytes(ifile) /\ ExecutableName(ifile)


\* What the parser of an attribute value makes of the characters it is
\* given: character references are decoded.
RECURSIVE DecodeAttribute(_)
DecodeAttribute(cs) ==
    LET StartsAs(ent) == Len(cs) >= Len(ent) /\ SubSeq(cs, 1, Len(ent)) = ent
        After(ent) == SubSeq(cs, Len(ent) + 1, Len(cs))
    IN  IF cs = <<>> THEN <<>>
        ELSE IF StartsAs(<<"&", "l", "t", ";">>) THEN <<"<">> \o DecodeAttribute(After(<<"&", "l", "t", ";">>))
        ELSE IF StartsAs(<<"&", "g", "t", ";">>) THEN <<">">> \o DecodeAttribute(After(<<"&", "g", "t", ";">>))
        ELSE IF StartsAs(<<"&", "a", "m", "p", ";">>)
             THEN <<"&">> \o DecodeAttribute(After(<<"&", "a", "m", "p", ";">>))
        ELSE IF StartsAs(<<"&", "#", "3", "9", ";">>)
             THEN <<"'">> \o DecodeAttribute(After(<<"&", "#", "3", "9", ";">>))
        ELSE <<Head(cs)>> \o DecodeAttribute(Tail(cs))

Has(cs, c) == \E k \in 1..Len(cs) : cs[k] = c

\* Element content is inert if no tag can start in it; a double-quoted
\* attribute value if it holds no double quote; the single-quoted string
\* of a handler inside such an attribute if, in addition, the decoded
\* value holds no single quote that would end the string.
InertContent(str) == ~Has(str.tail, "<")
InertAttribute(str) == ~Has(str.tail, DQ)
InertHandlerString(str) == InertAttribute(str) /\ ~Has(DecodeAttribute(str.tail), "'")

\* C32: every stored string the resolver or the recent list places into
\* markup is escaped first, and none reaches its position in a form the
\* position decodes back to active content.
C32_MarkupIsInert ==
    /\ InertContent(markup.contentText)
    /\ InertContent(markup.recentName)
    /\ InertContent(markup.recentText)
    /\ InertAttribute(markup.dataQrId)
    /\ InertHandlerString(markup.copyArg)
    /\ InertHandlerString(markup.loadArg)


Terminal == pc \in {"NAVIGATED", "CONTENT_DISPLAYED", "ERROR_SHOWN"}

\* The steps of START -> RESOLVING -> (FOUND -> SCAN_RECORDED -> DISPATCHING
\* -> NAVIGATED or CONTENT_DISPLAYED) or (NOT_FOUND -> ERROR_SHOWN), with
\* RESOLVING passing from source to source and FOUND waiting for the
\* increment to settle.
ResolutionStep ==
    \/ pc' = pc
    \/ pc = "START" /\ pc' = "RESOLVING_firebase" /\ qrId' # "none"
    \/ pc = "START" /\ pc' = "ERROR_SHOWN" /\ qrId' = "none" /\ consulted' = <<>>
    \/ pc = "RESOLVING_firebase" /\ pc' \in {"RESOLVING_local", "FOUND"}
    \/ pc = "RESOLVING_local" /\ pc' \in {"RESOLVING_payload", "FOUND"}
    \/ pc = "RESOLVING_payload" /\ pc' \in {"NOT_FOUND", "FOUND"}
    \/ pc = "NOT_FOUND" /\ pc' = "ERROR_SHOWN"
    \/ pc = "FOUND" /\ pc' = "INCREMENTING"
    \/ pc = "INCREMENTING" /\ pc' = "SCAN_RECORDED"
    \/ pc = "SCAN_RECORDED" /\ pc' = "DISPATCHING"
    \/ pc = "DISPATCHING" /\ pc' \in {"NAVIGATED", "CONTENT_DISPLAYED"}

\* incrementScan is called in the step that leaves FOUND and nowhere else,
\* and a link without an id never has a source read.
ResolutionCalls ==
    /\ (incState = "none" /\ incState' # "none") <=> (pc = "FOUND" /\ pc' = "INCREMENTING")
    /\ incState # "none" => incState' # "none"
    /\ (pc' # "START" /\ qrId' = "none") => consulted' = <<>>

\* C33: a resolution follows START -> RESOLVING -> (FOUND -> SCAN_RECORDED
\* -> DISPATCHING -> NAVIGATED or CONTENT_DISPLAYED) or (NOT_FOUND ->
\* ERROR_SHOWN) and, its store reads returning, ends in one of NAVIGATED,
\* CONTENT_DISPLAYED, ERROR_SHOWN, where it stays; incrementScan is
\* attempted at most once, after FOUND and before the dispatch; a link
\* without an id ends in ERROR_SHOWN with no source read.
C33_ResolutionTerminates ==
    /\ [][ResolutionStep /\ ResolutionCalls]_vars
    /\ (pc # "START") ~> Terminal


\* C34: no two successful create calls return the same id, and create never
\* writes over a record that exists under the generated id.
C34_IdsUniqueNoOverwrite ==
    /\ \A i, j \in 1..Len(ureturned) : i # j => ureturned[i] # ureturned[j]
    /\ Cardinality(ustore) = Len(ureturned)


\* C35: the legacy migration loses no data: when getItem took the migration
\* path and returned the legacy value, the next getItem (its own decryption
\* working) returns that value again, also when the encryption failed
\* during the migration's setItem.
C35_MigrationKeepsData ==
    [][(/\ vcall.op = "getItem" /\ vcall.migrated /\ vcall.some
        /\ vcall'.op = "getItem" /\ vcall'.decOK) =>
           (vcall'.some /\ vcall'.data = vcall.data)]_vars


\* The scanCount of the record of the running resolution in the tier that
\* served it: the tier FirebaseManager.getQRCode read, or the local store.
ServedCount(rem, l) ==
    IF dataSource = "firebase" /\ UseRemote(rDatabase)
    THEN rem[qrId].scanCount
    ELSE LocalCopy(l, qrId).scanCount

\* C36: a resolution that found its record in a storage tier and whose
\* increment attempt did not fail has raised the record's scanCount by one
\* in the tier that served it.
C36_IncrementHitsServingTier ==
    [][(/\ pc = "INCREMENTING" /\ pc' = "SCAN_RECORDED"
        /\ incState' = "done"
        /\ dataSource \in {"firebase", "encrypted_storage", "unencrypted_storage"}) =>
           ServedCount(remote', ls') = ServedCount(remote, ls) + 1]_vars


\* The subscriptions whose unsubscribe handle has been called: the ones
\* startScanCountListener has replaced.
Replaced == {w \in Subs : w < wcur}

\* C37: once the handle returned by watch has been called, the
\* subscription's onChange is not called again, on either tier: after the
\* page has replaced its listener no callback of the previous one updates
\* the analytics shown.
C37_NoCallAfterUnsubscribe ==
    [][\A w \in Replaced : wcalls'[w] = wcalls[w]]_vars


\* The calls suspended in `await FirebaseManager.createQRCode(...)`.
AwaitingStore == {c \in Calls : gpc[c] = "create"}

\* The calls whose createQRCode has returned an id.
Created == {c \in Calls : gpc[c] \in {"canvas", "shown"}}

\* C38: at most one generateQRCode call awaits the store at a time,
\* whichever event started it, and currentQRId names the record created
\* for the latest event that had a record created.
C38_OneCreationInFlight ==
    /\ Cardinality(AwaitingStore) <= 1
    /\ currentQRId # 0 => \A c \in Created : c <= currentQRId


\* C39: whatever the resolver navigates to is an absolute http or https
\* URL; content that is navigable only through the https:// prefix retry
\* is navigated to with the prefix, never as the raw scheme-less string.
C39_NavigatesToAbsoluteURL ==
    pc = "NAVIGATED" => navTarget.scheme \in {"http:", "https:"}

\* C40: content whose raw string contains a blocked-scheme substring, in
\* any letter case, is never navigated to, whichever branch of isValidURL
\* classified it and whether it came from a record or from a link payload.
C40_BlockedSchemeNeverNavigated ==
    pc = "NAVIGATED" => ~ContainsDangerous(qrData.originalText)

====
